---- MODULE Spec2Model ----
(***************************************************************************)
(* Event-ingestion pipeline: POST /events (rate limit, validation, dedup   *)
(* cache, publish to the JetStream work queue), the queue consumer worker  *)
(* and the event store writer.                                             *)
(***************************************************************************)
EXTENDS Integers, Sequences, FiniteSets, TLC

VARIABLES seen, rate, stream, store, events_failed_total, req, wk, law

vars == <<seen, rate, stream, store, events_failed_total, req, wk, law>>

----------------------------------------------------------------------------
(* Bounds of the model and the configuration it is instantiated with.      *)

\* settings.redis_idempotency_ttl, in clock ticks
IdemTTL == 2
\* settings.rate_limit_window, in clock ticks
RateWindow == 2
\* settings.rate_limit_requests
RateLimitRequests == 1
\* longest batch drawn as input, besides the oversize batch
MaxLen == 2
\* process launches of one worker
MaxStarts == 3
\* clock ticks observed while the cache services are called directly
MaxClock == 3
\* is_allowed calls observed while the rate limiter is called directly
MaxCalls == 4
\* messages on the stream while the workers are observed on their own
MaxMsgs == 2

\* EventBatch.validate_batch_size
MaxBatchSize == 1000
\* EventBase.user_id max_length
MaxUserIdLen == 255
\* ConsumerConfig(max_deliver=3)
MaxDeliver == 3
\* subscription.fetch(batch=10)
FetchBatch == 10
\* msg.nak(delay=5)
NakDelay == 5

Reqs == {"r1", "r2"}
Workers == {"w1", "w2"}
Clients == {"c1", "c2"}
\* the clients the modelled requests come from
ReqClients == {"c1"}
EventIds == {"a", "b"}

\* the instant against which occurred_at is validated (datetime.now)
Now == 1

----------------------------------------------------------------------------
(* Inputs.                                                                 *)

Ev(id, user, at) == [event_id |-> id, user_id |-> user, occurred_at |-> at]

\* well-formed events; two of them share event_id "a" and differ elsewhere
GoodEvents == {Ev("a", "u1", 0), Ev("a", "u2", 1), Ev("b", "u1", 0)}

\* events that violate a field constraint: empty user_id, future timestamp
BadEvents == {Ev("b", "", 0), Ev("a", "u1", 2)}

SeqsUpTo(S, n) == UNION {[1..k -> S] : k \in 0..n}

OversizeBatch == [i \in 1..(MaxBatchSize + 1) |-> Ev("a", "u1", 0)]

\* request bodies: every batch up to MaxLen of two good events with different
\* event_ids (the empty batch included), batches holding one bad event, and
\* one batch of 1001 events
Batches ==
    SeqsUpTo({Ev("a", "u1", 0), Ev("b", "u1", 0)}, MaxLen)
      \cup {<<e>> : e \in BadEvents}
      \cup {<<Ev("b", "u1", 0), e>> : e \in BadEvents}
      \cup {OversizeBatch}

----------------------------------------------------------------------------
(* Helpers on sequences.                                                   *)

Range(s) == {s[i] : i \in DOMAIN s}

RECURSIVE SelectSeqBy(_, _)
\* list comprehension [x for x in s if x.event_id in ids]
SelectSeqBy(s, ids) ==
    IF s = <<>> THEN <<>>
    ELSE IF Head(s).event_id \in ids
         THEN <<Head(s)>> \o SelectSeqBy(Tail(s), ids)
         ELSE SelectSeqBy(Tail(s), ids)

RECURSIVE SelectIdsOnce(_, _, _)
\* a selection that collects the ids in a set: a repeated id is kept once
SelectIdsOnce(s, cache, want) ==
    IF s = <<>> THEN <<>>
    ELSE IF (cache[Head(s)] > 0) = want /\ Head(s) \notin Range(Tail(s))
         THEN <<Head(s)>> \o SelectIdsOnce(Tail(s), cache, want)
         ELSE SelectIdsOnce(Tail(s), cache, want)

RECURSIVE SelectIds(_, _, _)
\* the ids of s, in order, whose key existence equals want
SelectIds(s, cache, want) ==
    IF s = <<>> THEN <<>>
    ELSE IF (cache[Head(s)] > 0) = want
         THEN <<Head(s)>> \o SelectIds(Tail(s), cache, want)
         ELSE SelectIds(Tail(s), cache, want)

Max(a, b) == IF a >= b THEN a ELSE b

Min(a, b) == IF a <= b THEN a ELSE b

----------------------------------------------------------------------------
(* Validation layer: app/models/event.py                                   *)

\* EventBase: user_id 1..255 characters, occurred_at not in the future
ValidEvent(e) ==
    /\ Len(e.user_id) >= 1
    /\ Len(e.user_id) <= MaxUserIdLen
    /\ ~(e.occurred_at > Now)

\* an EventBatch without the min_length constraint
ValidBatchNoMin(b) ==
    /\ {i \in DOMAIN b : ~ValidEvent(b[i])} = {}
    /\ ~(Len(b) > MaxBatchSize)

\* the positions of a batch whose event fails EventBase validation
InvalidEvents(b) == {i \in DOMAIN b : ~ValidEvent(b[i])}

\* EventBatch: min_length=1, every event valid, validate_batch_size
ValidBatch(b) ==
    /\ Len(b) >= 1
    /\ InvalidEvents(b) = {}
    /\ ~(Len(b) > MaxBatchSize)

----------------------------------------------------------------------------
(* Dedup cache client: IdempotencyService.  seen[id] is the remaining      *)
(* time-to-live of the key event:seen:{id}; 0 means the key does not exist. *)
(* redis-py pipelines are MULTI/EXEC transactions by default, so each      *)
(* pipeline executes atomically.                                           *)

RECURSIVE check_each(_, _, _, _)
\* a check_batch that looks the ids up one by one and also reports as
\* duplicate an id it has already put in the new list
check_each(event_ids, cache, new_ids, duplicate_ids) ==
    IF event_ids = <<>>
    THEN [new_ids |-> new_ids, duplicate_ids |-> duplicate_ids]
    ELSE IF cache[Head(event_ids)] > 0 \/ Head(event_ids) \in Range(new_ids)
         THEN check_each(Tail(event_ids), cache, new_ids,
                         Append(duplicate_ids, Head(event_ids)))
         ELSE check_each(Tail(event_ids), cache,
                         Append(new_ids, Head(event_ids)), duplicate_ids)

check_batch_dedup(cache, event_ids) == check_each(event_ids, cache, <<>>, <<>>)

\* a check_batch that never consults the cache
check_batch_ignoring_marks(cache, event_ids) ==
    [new_ids |-> event_ids, duplicate_ids |-> <<>>]

\* check_batch: (new_event_ids, duplicate_event_ids)
check_batch(cache, event_ids) ==
    [new_ids       |-> SelectIds(event_ids, cache, FALSE),
     duplicate_ids |-> SelectIds(event_ids, cache, TRUE)]

\* a SET NX whose key lives one tick less than the configured TTL
set_nx_short(cache, id) ==
    IF cache[id] > 0 THEN cache ELSE [cache EXCEPT ![id] = IdemTTL - 1]

\* SET key "1" EX ttl NX
set_nx(cache, id) ==
    IF cache[id] > 0 THEN cache ELSE [cache EXCEPT ![id] = IdemTTL]

\* a mark_batch_as_seen that marks the first id only
mark_first_only(cache, event_ids) ==
    IF event_ids = <<>> THEN cache ELSE set_nx(cache, Head(event_ids))

RECURSIVE mark_batch_as_seen(_, _)
\* mark_batch_as_seen: one pipelined SET NX per id
mark_batch_as_seen(cache, event_ids) ==
    IF event_ids = <<>> THEN cache
    ELSE mark_batch_as_seen(set_nx(cache, Head(event_ids)), Tail(event_ids))

\* an is_duplicate whose key leaves the event id out
is_duplicate_any_key(cache, id) == \E other \in DOMAIN cache : cache[other] > 0

\* is_duplicate: EXISTS key > 0
is_duplicate(cache, id) == cache[id] > 0

\* the reply of SET key "1" EX ttl NX: nil when the key exists
set_nx_reply(cache, id) == IF cache[id] > 0 THEN "nil" ELSE "OK"

\* a mark_as_seen that writes with a plain SET
mark_as_seen_overwrite(cache, id) ==
    [cache  |-> [cache EXCEPT ![id] = IdemTTL],
     result |-> TRUE]

\* mark_as_seen: the cache after the SET NX, and `result is not None`
mark_as_seen(cache, id) ==
    [cache  |-> set_nx(cache, id),
     result |-> set_nx_reply(cache, id) # "nil"]

\* the dedup keys one clock tick later: a key whose time-to-live runs out is
\* deleted
expire_keys(cache) == [id \in DOMAIN cache |-> Max(0, cache[id] - 1)]

----------------------------------------------------------------------------
(* Rate limiter: RateLimiter.is_allowed.  rate[c] is the counter           *)
(* rate_limit:{c} and its remaining time-to-live; count 0 means no key.    *)

\* a deployment with RATE_LIMIT_ENABLED=false
rate_limit_disabled == FALSE

\* settings.rate_limit_enabled
rate_limit_enabled == TRUE

\* a limiter that writes SET key 1 EX window where INCR is meant
is_allowed_set(rl, client_id) ==
    [rl EXCEPT ![client_id] = [count |-> 1, ttl |-> RateWindow]]

\* INCR key; EXPIRE key window
is_allowed_incr(rl, client_id) ==
    [rl EXCEPT ![client_id] = [count |-> @.count + 1, ttl |-> RateWindow]]

\* a result whose remaining is not clamped at 0
is_allowed_result_raw(current_count) ==
    [allowed   |-> current_count <= RateLimitRequests,
     remaining |-> RateLimitRequests - current_count]

\* (is_allowed, remaining) computed from the incremented counter
is_allowed_result(current_count) ==
    [allowed   |-> current_count <= RateLimitRequests,
     remaining |-> Max(0, RateLimitRequests - current_count)]

\* a limiter whose key leaves the client id out: one counter for everybody
is_allowed_shared_key(rl, client_id, enabled) ==
    LET after == [c \in DOMAIN rl |->
                    [count |-> rl[c].count + 1, ttl |-> RateWindow]]
        res == is_allowed_result(after[client_id].count)
    IN  [rate |-> IF enabled THEN after ELSE rl,
         allowed |-> ~enabled \/ res.allowed,
         remaining |-> IF enabled THEN res.remaining ELSE RateLimitRequests]

\* a limiter that counts the call before it looks at the enable flag
is_allowed_count_always(rl, client_id, enabled) ==
    LET after == is_allowed_incr(rl, client_id)
        res == is_allowed_result(after[client_id].count)
    IN  [rate |-> after,
         allowed |-> ~enabled \/ res.allowed,
         remaining |-> IF enabled THEN res.remaining ELSE RateLimitRequests]

\* RateLimiter.is_allowed under settings.rate_limit_enabled = enabled: the
\* counters after the call and the returned (is_allowed, remaining)
is_allowed(rl, client_id, enabled) ==
    IF ~enabled
    THEN [rate |-> rl, allowed |-> TRUE, remaining |-> RateLimitRequests]
    ELSE LET after == is_allowed_incr(rl, client_id)
             res == is_allowed_result(after[client_id].count)
         IN  [rate |-> after, allowed |-> res.allowed,
              remaining |-> res.remaining]

\* the counters one clock tick later: a counter whose time-to-live runs out
\* is deleted
expire_counters(rl) ==
    [c \in DOMAIN rl |->
       IF rl[c].ttl > 1 THEN [rl[c] EXCEPT !.ttl = @ - 1]
       ELSE [count |-> 0, ttl |-> 0]]

----------------------------------------------------------------------------
(* Queue publisher: NATSPublisher.                                         *)

\* json.dumps(event_data).encode()
json_dumps(e) == <<"json", e>>

\* a message of the stream as the broker tracks it for the durable consumer
Message(e, r) ==
    [data |-> json_dumps(e), by |-> r, deliveries |-> 0, state |-> "pending",
     delay |-> 0]

----------------------------------------------------------------------------
(* Initial state.                                                          *)

IdleReq ==
    [pc |-> "idle", client |-> "c1", batch |-> <<>>, new_ids |-> <<>>,
     duplicate_ids |-> <<>>, new_events |-> <<>>, k |-> 0, status |-> 0,
     remaining |-> 0, accepted |-> 0, duplicates |-> 0, failed |-> 0]

\* a worker after run_worker has connected (nats_client) and subscribed
IdleWorker ==
    [pc |-> "loop", shutdown_flag |-> FALSE, messages |-> <<>>, i |-> 0,
     starts |-> 1, nats_client |-> "connected"]

Init ==
    /\ seen = [id \in EventIds |-> 0]
    /\ rate = [c \in Clients |-> [count |-> 0, ttl |-> 0]]
    /\ stream = <<>>
    /\ store = <<>>
    /\ events_failed_total =
         [reason \in {"ingestion_error", "decode_error", "processing_error"} |-> 0]
    /\ req = [r \in Reqs |-> IdleReq]
    /\ wk = [w \in Workers |-> IdleWorker]
    /\ law = <<>>

----------------------------------------------------------------------------
(* Ingest handler: POST /events, app/api/routes/events.py                  *)

SetReq(r, rec) == req' = [req EXCEPT ![r] = rec]

Inc(counter, reason) == [counter EXCEPT ![reason] = @ + 1]

\* event_ids = [event.event_id for event in batch.events]
EventIdsOf(b) == [i \in DOMAIN b |-> b[i].event_id]

\* a handler that forgets the filter and keeps every event of the batch
AllEvents(b, new_ids) == IF new_ids = <<>> THEN <<>> ELSE b

\* new_events = [event for event in batch.events if event.event_id in new_ids]
NewEvents(b, new_ids) == SelectSeqBy(b, Range(new_ids))

\* the body of the 202 response
EventResponse(new_events, duplicate_ids) ==
    [accepted |-> Len(new_events), duplicates |-> Len(duplicate_ids),
     failed |-> 0]

\* the counter after check_rate_limit ran for client c
RateAfter(c) == IF rate_limit_enabled THEN is_allowed_incr(rate, c) ELSE rate

\* the (is_allowed, remaining) pair check_rate_limit gets for client c
RateResult(c) ==
    IF rate_limit_enabled
    THEN is_allowed_result(RateAfter(c)[c].count)
    ELSE [allowed |-> TRUE, remaining |-> RateLimitRequests]

\* The route's dependency check_rate_limit runs before the body is
\* validated; a client over its limit is answered 429.
RateLimited(r, c, b) ==
    /\ req[r].pc = "idle"
    /\ ~RateResult(c).allowed
    /\ rate' = RateAfter(c)
    /\ SetReq(r, [req[r] EXCEPT !.pc = "done", !.client = c, !.batch = b,
                                !.status = 429, !.remaining = 0])
    /\ UNCHANGED <<law, seen, stream, store, events_failed_total, wk>>

\* The body fails EventBatch validation: 422, the handler does not run.
RejectInvalid(r, c, b) ==
    /\ req[r].pc = "idle"
    /\ RateResult(c).allowed
    /\ ~ValidBatch(b)
    /\ rate' = RateAfter(c)
    /\ SetReq(r, [req[r] EXCEPT !.pc = "done", !.client = c, !.batch = b,
                                !.status = 422,
                                !.remaining = RateResult(c).remaining])
    /\ UNCHANGED <<law, seen, stream, store, events_failed_total, wk>>

\* The request is admitted and ingest_events starts.
Admit(r, c, b) ==
    /\ req[r].pc = "idle"
    /\ RateResult(c).allowed
    /\ ValidBatch(b)
    /\ rate' = RateAfter(c)
    /\ SetReq(r, [req[r] EXCEPT !.pc = "check", !.client = c, !.batch = b,
                                !.remaining = RateResult(c).remaining])
    /\ UNCHANGED <<law, seen, stream, store, events_failed_total, wk>>

\* lines 48-72: check_batch, the filter, and the all-duplicates return
CheckBatch(r) ==
    /\ req[r].pc = "check"
    /\ LET cb == check_batch(seen, EventIdsOf(req[r].batch))
           ne == NewEvents(req[r].batch, cb.new_ids)
           resp == EventResponse(ne, cb.duplicate_ids)
       IN  IF ne = <<>>
           THEN SetReq(r, [req[r] EXCEPT !.pc = "done", !.status = 202,
                               !.new_ids = cb.new_ids,
                               !.duplicate_ids = cb.duplicate_ids,
                               !.new_events = ne,
                               !.accepted = 0,
                               !.duplicates = resp.duplicates,
                               !.failed = 0])
           ELSE SetReq(r, [req[r] EXCEPT !.pc = "mark",
                               !.new_ids = cb.new_ids,
                               !.duplicate_ids = cb.duplicate_ids,
                               !.new_events = ne])
    /\ UNCHANGED <<law, seen, rate, stream, store, events_failed_total, wk>>

\* line 75: mark_batch_as_seen(new_ids)
MarkBatch(r) ==
    /\ req[r].pc = "mark"
    /\ seen' = mark_batch_as_seen(seen, req[r].new_ids)
    /\ SetReq(r, [req[r] EXCEPT !.pc = "publish", !.k = 0])
    /\ UNCHANGED <<law, rate, stream, store, events_failed_total, wk>>

\* lines 99-105: any exception of the handler body ends it with a 500
handler_error(rec) == [rec EXCEPT !.pc = "done", !.status = 500]

\* a publish_event that logs the error and does not raise it again
publish_error_swallowed(rec) == [rec EXCEPT !.k = @ + 1]

\* publish_event re-raises the publish error, which leaves publish_batch
\* and reaches the handler's except clause
publish_error(rec) == handler_error(rec)

\* lines 99-105: the handler counts the error
IngestError(r, rec) ==
    /\ events_failed_total' = Inc(events_failed_total, "ingestion_error")
    /\ SetReq(r, rec)

\* a cache pipeline raises (cache unreachable)
CacheError(r) ==
    /\ req[r].pc \in {"check", "mark"}
    /\ IngestError(r, handler_error(req[r]))
    /\ UNCHANGED <<law, seen, rate, stream, store, wk>>

\* a publish_batch whose loop stops one event early
publish_batch_short(k, events) == k >= Len(events) - 1

\* publish_batch: has the for loop over events run to its end
publish_batch_done(k, events) == k = Len(events)

\* publish_batch, one iteration: publish_event acknowledged by the broker
PublishEvent(r) ==
    /\ req[r].pc = "publish"
    /\ ~publish_batch_done(req[r].k, req[r].new_events)
    /\ stream' = Append(stream, Message(req[r].new_events[req[r].k + 1], r))
    /\ SetReq(r, [req[r] EXCEPT !.k = @ + 1])
    /\ UNCHANGED <<law, seen, rate, store, events_failed_total, wk>>

\* publish_event raises: publish_batch is aborted, the handler answers 500
PublishFail(r) ==
    /\ req[r].pc = "publish"
    /\ ~publish_batch_done(req[r].k, req[r].new_events)
    /\ IngestError(r, publish_error(req[r]))
    /\ UNCHANGED <<law, seen, rate, stream, store, wk>>

\* lines 81-97: the 202 response
Respond(r) ==
    /\ req[r].pc = "publish"
    /\ publish_batch_done(req[r].k, req[r].new_events)
    /\ LET resp == EventResponse(req[r].new_events, req[r].duplicate_ids)
       IN  SetReq(r, [req[r] EXCEPT !.pc = "done", !.status = 202,
                          !.accepted = resp.accepted,
                          !.duplicates = resp.duplicates,
                          !.failed = resp.failed])
    /\ UNCHANGED <<law, seen, rate, stream, store, events_failed_total, wk>>

----------------------------------------------------------------------------
(* Cache expiry: one clock tick ages every key; a key whose time-to-live   *)
(* reaches 0 is deleted.                                                   *)

Tick ==
    /\ \/ \E id \in EventIds : seen[id] > 0
       \/ \E c \in Clients : rate[c].ttl > 0
    /\ seen' = expire_keys(seen)
    /\ rate' = expire_counters(rate)
    /\ UNCHANGED <<law, stream, store, events_failed_total, req, wk>>

----------------------------------------------------------------------------
(* Event store writer: EventService.insert_events.  store is the events    *)
(* table in row-id order.                                                  *)

\* an insert that ignores the uniqueness constraint on event_id
insert_without_conflict(rows, e) == Append(rows, e)

\* INSERT ... ON CONFLICT (event_id) DO NOTHING: the table after one insert
insert_on_conflict(rows, e) ==
    IF \E i \in DOMAIN rows : rows[i].event_id = e.event_id
    THEN rows
    ELSE Append(rows, e)

RECURSIVE insert_loop(_, _, _, _)
\* the for loop of insert_events inside the session's transaction;
\* result.rowcount > 0 exactly when the statement added a row
insert_loop(rows, events, inserted, duplicates) ==
    IF events = <<>>
    THEN [rows |-> rows, inserted |-> inserted, duplicates |-> duplicates]
    ELSE LET after == insert_on_conflict(rows, Head(events))
         IN  IF Len(after) > Len(rows)
             THEN insert_loop(after, Tail(events), inserted + 1, duplicates)
             ELSE insert_loop(after, Tail(events), inserted, duplicates + 1)

\* an insert_events whose transaction is never committed
insert_events_uncommitted(rows, events, fail_at) ==
    [store |-> rows, raised |-> FALSE, inserted |-> Len(events),
     duplicates |-> 0]

\* insert_events(events); fail_at = 0: no statement raises and the commit
\* succeeds; fail_at = j > 0: the j-th statement (or, past the last one, the
\* commit) raises, the session is rolled back and the exception propagates
insert_events(rows, events, fail_at) ==
    IF fail_at = 0
    THEN LET done == insert_loop(rows, events, 0, 0)
         IN  [store |-> done.rows, raised |-> FALSE,
              inserted |-> done.inserted, duplicates |-> done.duplicates]
    ELSE [store |-> rows, raised |-> TRUE, inserted |-> 0, duplicates |-> 0]

----------------------------------------------------------------------------
(* Queue consumer worker: app/workers/event_processor.py                   *)

SetWk(w, rec) == wk' = [wk EXCEPT ![w] = rec]

\* json.loads(msg.data.decode())
json_loads(data) ==
    IF data[1] = "json"
    THEN [ok |-> TRUE, value |-> data[2]]
    ELSE [ok |-> FALSE, value |-> <<>>]

\* a consumer without max_deliver
DeliverableUnlimited(i) == stream[i].state = "pending"

\* messages the durable consumer may still deliver: not acknowledged, not
\* terminated, not awaiting a disposition, fewer than max_deliver deliveries
Deliverable(i) ==
    /\ stream[i].state = "pending"
    /\ stream[i].deliveries < MaxDeliver

RECURSIVE DeliverableFrom(_)
\* the deliverable messages at positions i.. of the stream, in stream order
DeliverableFrom(i) ==
    IF i > Len(stream) THEN <<>>
    ELSE IF Deliverable(i) THEN <<i>> \o DeliverableFrom(i + 1)
         ELSE DeliverableFrom(i + 1)

\* the worker's position after the disposition of messages[i]
NextMsg(w) ==
    IF wk[w].i < Len(wk[w].messages)
    THEN [wk[w] EXCEPT !.pc = "for", !.i = @ + 1]
    ELSE [wk[w] EXCEPT !.pc = "loop", !.messages = <<>>, !.i = 0]

\* the message process_event is working on
Cur(w) == wk[w].messages[wk[w].i]

\* signal_handler: SIGINT or SIGTERM sets the process-wide flag
Signal(w) ==
    /\ wk[w].pc # "exit"
    /\ ~wk[w].shutdown_flag
    /\ SetWk(w, [wk[w] EXCEPT !.shutdown_flag = TRUE])
    /\ UNCHANGED <<law, seen, rate, stream, store, events_failed_total, req>>

\* a fetch loop that does not test the flag
FetchIgnoringFlag(w, n) ==
    /\ wk[w].pc = "loop"
    /\ LET avail == DeliverableFrom(1)
       IN  /\ n \in 1..Min(FetchBatch, Len(avail))
           /\ LET got == SubSeq(avail, 1, n)
              IN  /\ stream' = [i \in DOMAIN stream |->
                                  IF i \in Range(got)
                                  THEN [stream[i] EXCEPT !.state = "inflight",
                                                         !.deliveries = @ + 1,
                                                         !.delay = 0]
                                  ELSE stream[i]]
                  /\ SetWk(w, [wk[w] EXCEPT !.pc = "for", !.messages = got,
                                            !.i = 1])
    /\ UNCHANGED <<law, seen, rate, store, events_failed_total, req>>

\* while not shutdown_flag: messages = await subscription.fetch(batch=10)
\* (an empty fetch raises TimeoutError and the loop continues)
Fetch(w, n) ==
    /\ wk[w].pc = "loop"
    /\ ~wk[w].shutdown_flag
    /\ LET avail == DeliverableFrom(1)
       IN  /\ n \in 1..Min(FetchBatch, Len(avail))
           /\ LET got == SubSeq(avail, 1, n)
              IN  /\ stream' = [i \in DOMAIN stream |->
                                  IF i \in Range(got)
                                  THEN [stream[i] EXCEPT !.state = "inflight",
                                                         !.deliveries = @ + 1,
                                                         !.delay = 0]
                                  ELSE stream[i]]
                  /\ SetWk(w, [wk[w] EXCEPT !.pc = "for", !.messages = got,
                                            !.i = 1])
    /\ UNCHANGED <<law, seen, rate, store, events_failed_total, req>>

\* while not shutdown_flag: the loop ends, run_worker returns
LoopExit(w) ==
    /\ wk[w].pc = "loop"
    /\ wk[w].shutdown_flag
    /\ SetWk(w, [wk[w] EXCEPT !.pc = "exit"])
    /\ UNCHANGED <<law, seen, rate, stream, store, events_failed_total, req>>

\* for msg in messages: if shutdown_flag: break
Break(w) ==
    /\ wk[w].pc = "for"
    /\ wk[w].shutdown_flag
    /\ SetWk(w, [wk[w] EXCEPT !.pc = "loop", !.messages = <<>>, !.i = 0])
    /\ UNCHANGED <<law, seen, rate, stream, store, events_failed_total, req>>

\* process_event up to the commit of insert_events([event])
ProcessInsert(w) ==
    /\ wk[w].pc = "for"
    /\ ~wk[w].shutdown_flag
    /\ LET decoded == json_loads(stream[Cur(w)].data)
       IN  /\ decoded.ok
           /\ ValidEvent(decoded.value)
           /\ LET res == insert_events(store, <<decoded.value>>, 0)
              IN  /\ ~res.raised
                  /\ store' = res.store
    /\ SetWk(w, [wk[w] EXCEPT !.pc = "ack"])
    /\ UNCHANGED <<law, seen, rate, stream, events_failed_total, req>>

\* msg.nak(delay=5): the broker redelivers the message after the delay; a
\* message that is no longer awaiting a disposition is left as it is
nak(msgs, i) ==
    IF msgs[i].state = "inflight"
    THEN [msgs EXCEPT ![i] = [@ EXCEPT !.state = "pending", !.delay = NakDelay]]
    ELSE msgs

\* an acknowledgment that never reaches the broker
ack_lost(msgs, i) == msgs

\* msg.ack(): the work-queue stream drops the message
ack(msgs, i) ==
    [msgs EXCEPT ![i] = [@ EXCEPT !.state = IF @ = "termed" THEN @ ELSE "acked"]]

\* process_event, except Exception: the insert raised; nak and count
ProcessFail(w) ==
    /\ wk[w].pc = "for"
    /\ ~wk[w].shutdown_flag
    /\ LET decoded == json_loads(stream[Cur(w)].data)
       IN  /\ decoded.ok
           /\ \/ ~ValidEvent(decoded.value)
              \/ \E j \in 1..2 : insert_events(store, <<decoded.value>>, j).raised
    /\ stream' = nak(stream, Cur(w))
    /\ events_failed_total' = Inc(events_failed_total, "processing_error")
    /\ SetWk(w, NextMsg(w))
    /\ UNCHANGED <<law, seen, rate, store, req>>

\* await msg.ack()
Ack(w) ==
    /\ wk[w].pc = "ack"
    /\ stream' = ack(stream, Cur(w))
    /\ SetWk(w, NextMsg(w))
    /\ UNCHANGED <<law, seen, rate, store, events_failed_total, req>>

\* a term that reaches the broker as a negative acknowledgment
term_requeued(msgs, i) == nak(msgs, i)

\* msg.term(): the broker stops redelivering the message
term(msgs, i) ==
    [msgs EXCEPT ![i] = [@ EXCEPT !.state = IF @ = "acked" THEN @ ELSE "termed"]]

\* process_event, except json.JSONDecodeError: the payload is not JSON; term
\* and count, nothing is written
ProcessDecodeError(w) ==
    /\ wk[w].pc = "for"
    /\ ~wk[w].shutdown_flag
    /\ ~json_loads(stream[Cur(w)].data).ok
    /\ stream' = term(stream, Cur(w))
    /\ events_failed_total' = Inc(events_failed_total, "decode_error")
    /\ SetWk(w, NextMsg(w))
    /\ UNCHANGED <<law, seen, rate, store, req>>

\* ack_wait: a delivered message without disposition becomes deliverable again
AckTimeout(i) ==
    /\ stream[i].state = "inflight"
    /\ stream' = [stream EXCEPT ![i].state = "pending"]
    /\ UNCHANGED <<law, seen, rate, store, events_failed_total, req, wk>>

\* except TimeoutError: the fetch found no message within its timeout
FetchTimeout(w) ==
    /\ wk[w].pc = "loop"
    /\ ~wk[w].shutdown_flag
    /\ DeliverableFrom(1) = <<>>
    /\ SetWk(w, [wk[w] EXCEPT !.pc = "timeout"])
    /\ UNCHANGED <<law, seen, rate, stream, store, events_failed_total, req>>

\* an exception of the loop body that ends run_worker
loop_exception_fatal(rec) ==
    [rec EXCEPT !.pc = "exit", !.messages = <<>>, !.i = 0]

\* except Exception: log, await asyncio.sleep(1); the rest of the fetched
\* batch is given up
loop_exception(rec) ==
    [rec EXCEPT !.pc = "sleep", !.messages = <<>>, !.i = 0]

\* an exception other than the fetch timeout leaves the try block: fetch
\* raises, or a disposition call inside process_event's handlers raises
LoopError(w) ==
    /\ \/ wk[w].pc = "loop" /\ ~wk[w].shutdown_flag
       \/ wk[w].pc = "for" /\ ~wk[w].shutdown_flag
       \/ wk[w].pc = "ack"
    /\ SetWk(w, loop_exception(wk[w]))
    /\ UNCHANGED <<law, seen, rate, stream, store, events_failed_total, req>>

\* continue, or the end of the sleep: back to the loop head
Continue(w) ==
    /\ wk[w].pc \in {"timeout", "sleep"}
    /\ SetWk(w, [wk[w] EXCEPT !.pc = "loop"])
    /\ UNCHANGED <<law, seen, rate, stream, store, events_failed_total, req>>

\* the worker process is launched again after it exited
Restart(w) ==
    /\ wk[w].pc = "exit"
    /\ wk[w].starts < MaxStarts
    /\ SetWk(w, [IdleWorker EXCEPT !.starts = wk[w].starts + 1])
    /\ UNCHANGED <<law, seen, rate, stream, store, events_failed_total, req>>

----------------------------------------------------------------------------------------------------------------------------------------
(* Specifications.                                                         *)

\* requests arriving at the request slots rs from the clients cs with bodies B
Arrive(rs, cs, B) ==
    \/ \E r \in rs, c \in cs, b \in B : RateLimited(r, c, b)
    \/ \E r \in rs, c \in cs, b \in B : RejectInvalid(r, c, b)
    \/ \E r \in rs, c \in cs, b \in B : Admit(r, c, b)

\* the steps of ingest_events for the admitted requests of rs
Handle(rs) ==
    \/ \E r \in rs : CheckBatch(r)
    \/ \E r \in rs : MarkBatch(r)
    \/ \E r \in rs : CacheError(r)
    \/ \E r \in rs : PublishEvent(r)
    \/ \E r \in rs : PublishFail(r)
    \/ \E r \in rs : Respond(r)

Ingest(rs, cs, B) == Arrive(rs, cs, B) \/ Handle(rs)

\* the fetch loop of the worker processes ws and the broker's redelivery
Consume(ws) ==
    \/ \E w \in ws, n \in 1..FetchBatch : Fetch(w, n)
    \/ \E w \in ws : ProcessInsert(w)
    \/ \E w \in ws : Ack(w)
    \/ \E i \in DOMAIN stream : AckTimeout(i)

\* inserts of the worker processes ws that fail
Failures(ws) == \E w \in ws : ProcessFail(w)

\* signals, the exits they cause, and relaunches of the worker processes ws
Shutdown(ws) ==
    \/ \E w \in ws : Signal(w)
    \/ \E w \in ws : LoopExit(w)
    \/ \E w \in ws : Break(w)
    \/ \E w \in ws : Restart(w)

\* batches of one event with event_id "a", and the empty batch
SingleBatches == {<<e>> : e \in {g \in GoodEvents : g.event_id = "a"}} \cup {<<>>}

\* The pipeline while the store does not fail: two concurrent requests of one
\* event each, two workers, redelivery after the acknowledgment deadline.
Next ==
    \/ Ingest(Reqs, ReqClients, SingleBatches)
    \/ Consume(Workers)
    \/ Tick

Spec == Init /\ [][Next]_vars

\* The ingest path alone: two concurrent requests with every request body.
IngestNext ==
    \/ Ingest(Reqs, ReqClients, Batches)
    \/ Tick

IngestSpec == Init /\ [][IngestNext]_vars

\* The ingest path while no cache key expires; requests of both clients.
ResubmitNext == Ingest(Reqs, Clients, Batches)

ResubmitSpec == Init /\ [][ResubmitNext]_vars

\* One worker process whose inserts may fail and that is signalled and
\* relaunched.
ShutdownNext ==
    \/ Ingest(Reqs, ReqClients, SingleBatches)
    \/ Consume({"w1"})
    \/ Failures({"w1"})
    \/ Shutdown({"w1"})
    \/ Tick

ShutdownSpec == Init /\ [][ShutdownNext]_vars

\* payloads that reach the events subject: the encoding of a well-formed
\* event, the encoding of an event that fails validation, bytes that are not
\* JSON
Payloads ==
    {json_dumps(Ev("a", "u1", 0)), json_dumps(Ev("b", "", 0)), <<"bytes", "{">>}

\* a message with payload d reaches the stream from a publisher on its subject
Arrival(d) ==
    /\ Len(stream) < MaxMsgs
    /\ stream' = Append(stream, [data |-> d, by |-> "other", deliveries |-> 0,
                                 state |-> "pending", delay |-> 0])
    /\ UNCHANGED <<law, seen, rate, store, events_failed_total, req, wk>>

\* payloads of the workers ws that do not decode
DecodeErrors(ws) == \E w \in ws : ProcessDecodeError(w)

\* The worker processes on their own: messages of every kind arrive on the
\* stream, two workers fetch and process them, inserts may fail, deliveries
\* may pass their acknowledgment deadline.
QueueNext ==
    \/ \E d \in Payloads : Arrival(d)
    \/ Consume(Workers)
    \/ Failures(Workers)
    \/ DecodeErrors(Workers)

QueueSpec == Init /\ [][QueueNext]_vars

\* One run of one worker process on its own, from its start to the return
\* of run_worker after a signal.
StopNext ==
    \/ \E d \in Payloads : Arrival(d)
    \/ Consume({"w1"})
    \/ Failures({"w1"})
    \/ DecodeErrors({"w1"})
    \/ Signal("w1")
    \/ Break("w1")
    \/ LoopExit("w1")

\* the steps of run_worker itself; the event loop keeps running the
\* coroutine, and fetch returns after its timeout
WorkerStep(w) ==
    \/ \E n \in 1..FetchBatch : Fetch(w, n)
    \/ ProcessInsert(w)
    \/ ProcessFail(w)
    \/ ProcessDecodeError(w)
    \/ Ack(w)
    \/ Break(w)
    \/ LoopExit(w)

StopSpec == Init /\ [][StopNext]_vars /\ WF_vars(WorkerStep("w1"))

\* the batch that is submitted and submitted again, and a body that fails
\* validation
RetryBatches ==
    {<<Ev("a", "u1", 0), Ev("b", "u1", 0)>>, <<Ev("b", "", 0)>>}

\* A batch of two events and its resubmission, by either client, while the
\* cache keys age: any publish may fail.
RetryNext ==
    \/ Ingest(Reqs, Clients, RetryBatches)
    \/ Tick

RetrySpec == Init /\ [][RetryNext]_vars

\* One run of one worker process whose fetches may come back empty and
\* whose loop body may raise.
PollNext ==
    \/ \E d \in Payloads : Arrival(d)
    \/ Consume({"w1"})
    \/ Failures({"w1"})
    \/ Signal("w1")
    \/ Break("w1")
    \/ LoopExit("w1")
    \/ FetchTimeout("w1")
    \/ LoopError("w1")
    \/ Continue("w1")

PollSpec == Init /\ [][PollNext]_vars /\ WF_vars(Continue("w1"))

----------------------------------------------------------------------------
(* Properties.                                                             *)

\* the messages of the stream published by request r, in stream order
PublishedBy(r) == SelectSeq(stream, LAMBDA m : m.by = r)

\* the event_ids of the rows of the store
StoredIds == {store[i].event_id : i \in DOMAIN store}

\* C1: in every reachable state the store holds at most one row per
\* event_id, whatever requests, repeated publishes of one event, redeliveries
\* and workers are interleaved.
C1_OneRowPerEventId ==
    \A i, j \in DOMAIN store : i # j => store[i].event_id # store[j].event_id

\* two messages with one event_id and different payloads were both inserted
\* and acknowledged, and the store holds a row
C1_Witness ==
    /\ store # <<>>
    /\ \E i, j \in DOMAIN stream :
          /\ stream[i].data[2].event_id = stream[j].data[2].event_id
          /\ stream[i].data # stream[j].data
          /\ stream[i].state = "acked"
          /\ stream[j].state = "acked"

\* C3: every batch answered with 202 has accepted + duplicates + failed = |B|
\* and failed = 0, also when the batch repeats an id and when other requests
\* mark the same ids concurrently.
C3_CountsAddUp ==
    \A r \in Reqs :
        req[r].status = 202 =>
            /\ req[r].accepted + req[r].duplicates + req[r].failed
                 = Len(req[r].batch)
            /\ req[r].failed = 0

\* a 202 for a batch that repeats a new id, while the other request was
\* admitted with the same id
C3_Witness ==
    \E r, q \in Reqs :
        /\ r # q
        /\ req[r].status = 202
        /\ req[r].accepted = 2
        /\ Len(req[r].batch) = 2
        /\ req[r].batch[1].event_id = req[r].batch[2].event_id
        /\ req[q].pc # "idle"
        /\ req[q].status \in {0, 202}
        /\ req[q].batch # <<>>
        /\ req[q].batch[1].event_id = req[r].batch[1].event_id

\* One valid request handed over to two workers while the store, the cache
\* and the queue do not fail.
HandoffNext ==
    \/ \E b \in {v \in Batches : ValidBatch(v)} : Admit("r1", "c1", b)
    \/ CheckBatch("r1")
    \/ MarkBatch("r1")
    \/ PublishEvent("r1")
    \/ Respond("r1")
    \/ Consume(Workers)

HandoffSpec == Init /\ [][HandoffNext]_vars

\* the workers keep running: every fetch, insert and ack that stays possible
\* is eventually done
Fairness ==
    /\ \A w \in Workers : WF_vars(\E n \in 1..FetchBatch : Fetch(w, n))
    /\ \A w \in Workers : WF_vars(ProcessInsert(w))
    /\ \A w \in Workers : WF_vars(Ack(w))

LiveSpec == HandoffSpec /\ Fairness

----------------------------------------------------------------------------
(* Properties of the ingest handler.                                       *)

\* the messages a handler must have published for the events es, in order
Encoded(es) == [j \in DOMAIN es |-> json_dumps(es[j])]

\* the payloads of the messages published by request r, in stream order
PayloadsBy(r) == [j \in DOMAIN PublishedBy(r) |-> PublishedBy(r)[j].data]

\* request q is taking the step of check_batch, after request r was answered
\* 202 for the same batch
ResubmitCheck(r, q) ==
    /\ r # q
    /\ req[r].pc = "done"
    /\ req[r].status = 202
    /\ req[q].pc = "check"
    /\ req[q].batch = req[r].batch
    /\ req'[q].pc # "check"
    /\ req'[q].status # 500

\* C4: resubmitting, before any key expires, a batch that was answered 202
\* yields accepted = 0 and duplicates = |B|; the second request writes
\* nothing to the cache, publishes nothing and is finished.
C4_ResubmitAllDuplicates ==
    [][\A r, q \in Reqs :
          ResubmitCheck(r, q) =>
              /\ req'[q].pc = "done"
              /\ req'[q].status = 202
              /\ req'[q].accepted = 0
              /\ req'[q].duplicates = Len(req[q].batch)
              /\ req'[q].accepted + req'[q].duplicates
                   = req[r].accepted + req[r].duplicates
              /\ seen' = seen
              /\ stream' = stream
              /\ store' = store]_vars

\* a batch of two ids was accepted whole, resubmitted and answered as two
\* duplicates, and only the first request has published
C4_Witness ==
    \E r, q \in Reqs :
        /\ r # q
        /\ req[r].status = 202
        /\ req[r].accepted = 2
        /\ req[q].status = 202
        /\ req[q].batch = req[r].batch
        /\ req[q].accepted = 0
        /\ req[q].duplicates = 2
        /\ Len(PublishedBy(r)) = 2
        /\ PublishedBy(q) = <<>>

\* C7: when a 202 reports accepted = n > 0, each of the n accepted events is
\* already in the stream, published by that request in order, and no step of
\* a request handler changes the store.
C7_QueuedBeforeAccepted ==
    /\ [](\A r \in Reqs :
             (req[r].status = 202 /\ req[r].accepted > 0) =>
                 /\ Len(PublishedBy(r)) = req[r].accepted
                 /\ PayloadsBy(r) = Encoded(req[r].new_events))
    /\ [][\A r \in Reqs : req'[r] # req[r] => store' = store]_vars

\* a 202 with accepted = 2 while none of the two events is stored yet
C7_Witness ==
    /\ req["r1"].status = 202
    /\ req["r1"].accepted = 2
    /\ Len(PublishedBy("r1")) = 2
    /\ store = <<>>

\* C8: within one request the mark of all new ids completes before the first
\* publish, and only events whose id check_batch classified new (and not
\* duplicate) are published by it.
C8_MarkThenPublishNewOnly ==
    /\ [](\A i \in DOMAIN stream :
             LET r == stream[i].by
                 id == stream[i].data[2].event_id
             IN  /\ req[r].pc \in {"publish", "done"}
                 /\ id \in Range(req[r].new_ids)
                 /\ id \notin Range(req[r].duplicate_ids))
    /\ [][\A r \in Reqs :
             /\ (req[r].pc = "mark" /\ req'[r].pc = "publish") =>
                    /\ \A id \in Range(req[r].new_ids) : seen'[id] > 0
                    /\ stream' = stream
                    /\ PublishedBy(r) = <<>>
             /\ (Len(PublishedBy(r))' > Len(PublishedBy(r))) =>
                    req[r].pc = "publish"]_vars

\* a request classified one id of its batch duplicate and the other new and
\* has published the new one only
C8_Witness ==
    \E r \in Reqs :
        /\ req[r].status = 202
        /\ Len(req[r].batch) = 2
        /\ Len(req[r].duplicate_ids) = 1
        /\ Len(req[r].new_ids) = 1
        /\ Len(PublishedBy(r)) = 1

\* C9: if publishing the k-th new event fails, the events after it are not
\* published, the events before it stay published, the request is answered
\* 500 and never 202, and events_failed_total{ingestion_error} grows by 1.
C9_PublishFailureAborts ==
    /\ [][\A r \in Reqs :
             /\ PublishFail(r) =>
                    /\ req'[r].status = 500
                    /\ req'[r].pc = "done"
                    /\ stream' = stream
                    /\ events_failed_total'["ingestion_error"]
                         = events_failed_total["ingestion_error"] + 1
             /\ req[r].status = 500 => req'[r] = req[r]]_vars
    /\ [](\A r \in Reqs :
             req[r].status = 500 =>
                 /\ req[r].pc = "done"
                 /\ PayloadsBy(r)
                      = Encoded(SubSeq(req[r].new_events, 1, req[r].k)))

\* the second publish of a request failed after the first succeeded
C9_Witness ==
    \E r \in Reqs :
        /\ req[r].status = 500
        /\ Len(req[r].new_events) = 2
        /\ req[r].k = 1
        /\ Len(PublishedBy(r)) = 1
        /\ events_failed_total["ingestion_error"] >= 1

\* a body that is empty, holds more than 1000 events or an invalid event
ViolatesValidation(b) ==
    \/ Len(b) = 0
    \/ Len(b) > MaxBatchSize
    \/ {i \in DOMAIN b : ~ValidEvent(b[i])} # {}

\* request r is arriving with a body that violates validation
InvalidArrival(r) ==
    /\ req[r].pc = "idle"
    /\ req'[r].pc # "idle"
    /\ ViolatesValidation(req'[r].batch)

\* C10 as stated: a batch that violates validation is answered 422 and
\* leaves the cache, the queue and the store exactly as they were.
C10_NoSideEffects ==
    [][\A r \in Reqs :
          InvalidArrival(r) =>
              /\ req'[r].status = 422
              /\ seen' = seen
              /\ rate' = rate
              /\ stream' = stream
              /\ store' = store]_vars

\* C10, amended: a batch that violates validation never reaches the handler;
\* it is answered 422, or 429 when the client is over its rate limit; the
\* dedup keys, the queue and the store stay as they were and the only cache
\* change is the increment of the client's rate-limit counter.
C10_NoIngestSideEffects ==
    [][\A r \in Reqs :
          InvalidArrival(r) =>
              LET c == req'[r].client
              IN  /\ req'[r].pc = "done"
                  /\ req'[r].status =
                       IF rate[c].count + 1 <= RateLimitRequests
                       THEN 422 ELSE 429
                  /\ seen' = seen
                  /\ stream' = stream
                  /\ store' = store
                  /\ events_failed_total' = events_failed_total
                  /\ rate' = [rate EXCEPT ![c] =
                                [count |-> rate[c].count + 1,
                                 ttl |-> RateWindow]]]_vars

\* the batch of 1001 events was answered 422 and the client's counter counts
\* the request
C10_Witness ==
    \E r \in Reqs :
        /\ req[r].status = 422
        /\ Len(req[r].batch) = MaxBatchSize + 1
        /\ rate[req[r].client].count >= 1

----------------------------------------------------------------------------
(* Properties of the hand-over from the handler to the worker.             *)

\* some worker still has message i in the batch it fetched and has not yet
\* finished with it
Held(i) ==
    \E w \in Workers :
        /\ wk[w].pc \in {"for", "ack"}
        /\ \E j \in wk[w].i..Len(wk[w].messages) : wk[w].messages[j] = i

\* C2: every event counted as accepted in a 202 is in the store, or is still
\* with the queue or a worker for delivery, or was given up after its 3
\* deliveries with events_failed_total incremented; it is lost in no other
\* way.
C2_AcceptedNeverSilentlyLost ==
    \A i \in DOMAIN stream :
        req[stream[i].by].status = 202 =>
            \/ stream[i].data[2].event_id \in StoredIds
            \/ stream[i].state = "inflight"
            \/ Deliverable(i)
            \/ Held(i)
            \/ /\ stream[i].deliveries = MaxDeliver
               /\ events_failed_total["processing_error"] >= 1

\* the ids of the events of a batch are pairwise different
DistinctIds(b) ==
    \A i, j \in DOMAIN b : i # j => b[i].event_id # b[j].event_id

\* request r was answered 202 with all n events of a batch of n distinct ids
\* accepted
FreshAccepted(r) ==
    /\ req[r].status = 202
    /\ req[r].accepted = Len(req[r].batch)
    /\ DistinctIds(req[r].batch)

\* every event request r published is stored and its message acknowledged
Drained(r) ==
    /\ \A i \in DOMAIN stream : stream[i].by = r => stream[i].state = "acked"
    /\ \A j \in DOMAIN req[r].new_events :
          req[r].new_events[j].event_id \in StoredIds

\* C6: while the store does not fail and the workers keep running, every
\* event of a fresh batch of n distinct unseen ids answered accepted = n is
\* eventually inserted and its message acknowledged, and the store has grown
\* by exactly n rows.
C6_FreshBatchEventuallyStored ==
    FreshAccepted("r1") ~> (Drained("r1") /\ Len(store) = req["r1"].accepted)

\* both events of a fresh batch of two are stored and acknowledged
C6_Witness ==
    /\ FreshAccepted("r1")
    /\ req["r1"].accepted = 2
    /\ Drained("r1")
    /\ Len(store) = 2

----------------------------------------------------------------------------
(* Order of the events within a batch: the handler and the worker run on a *)
(* batch and on a permutation of it, each from the same cache and an empty *)
(* store, with no failure.  law holds the two inputs and the two outcomes. *)

\* publish_batch when every publish_event succeeds: one message per event,
\* in the order of the list
publish_batch(events) == [j \in DOMAIN events |-> json_dumps(events[j])]

\* ingest_events on batch b from dedup cache `cache`, nothing failing
IngestRun(cache, b) ==
    LET cb == check_batch(cache, EventIdsOf(b))
        ne == NewEvents(b, cb.new_ids)
    IN  [response  |-> EventResponse(ne, cb.duplicate_ids),
         cache     |-> IF ne = <<>> THEN cache
                       ELSE mark_batch_as_seen(cache, cb.new_ids),
         published |-> IF ne = <<>> THEN <<>> ELSE publish_batch(ne)]

RECURSIVE drain(_, _)
\* the worker loop until the queue is empty: process_event on every message
\* in stream order
drain(rows, msgs) ==
    IF msgs = <<>> THEN rows
    ELSE LET decoded == json_loads(Head(msgs))
         IN  IF decoded.ok /\ ValidEvent(decoded.value)
             THEN drain(insert_events(rows, <<decoded.value>>, 0).store,
                        Tail(msgs))
             ELSE drain(rows, Tail(msgs))

\* the response and the rows of the store after ingest and drain
Outcome(cache, b) ==
    LET run == IngestRun(cache, b)
    IN  [response |-> run.response,
         rows     |-> Range(drain(<<>>, run.published))]

\* the reorderings of batch b
Perms(b) ==
    {[i \in DOMAIN b |-> b[p[i]]] : p \in Permutations(DOMAIN b)}

\* valid batches of events that may repeat an event_id with other fields
PermBatches == {b \in SeqsUpTo(GoodEvents, MaxLen) : ValidBatch(b)}

\* dedup caches in which any of the ids may already be marked
Caches == [EventIds -> {0, IdemTTL}]

LawInit ==
    /\ seen = [id \in EventIds |-> 0]
    /\ rate = [c \in Clients |-> [count |-> 0, ttl |-> 0]]
    /\ stream = <<>>
    /\ store = <<>>
    /\ events_failed_total =
         [reason \in {"ingestion_error", "decode_error", "processing_error"} |-> 0]
    /\ req = [r \in Reqs |-> IdleReq]
    /\ wk = [w \in Workers |-> IdleWorker]
    /\ law \in UNION {{[phase |-> "in", batch |-> b, permuted |-> q,
                        cache |-> c, left |-> <<>>, right |-> <<>>] :
                          q \in Perms(b), c \in Caches} : b \in PermBatches}

\* both runs, from the same cache
RunBoth ==
    /\ law.phase = "in"
    /\ law' = [law EXCEPT !.phase = "out",
                          !.left = Outcome(law.cache, law.batch),
                          !.right = Outcome(law.cache, law.permuted)]
    /\ UNCHANGED <<seen, rate, stream, store, events_failed_total, req, wk>>

PermNext == RunBoth

PermSpec == LawInit /\ [][PermNext]_vars

\* C5: a batch and any permutation of it get the same response counts and
\* leave the same rows in the store once the worker has drained the queue,
\* also when two events of the batch carry one event_id with different other
\* fields.
C5_OrderInvariant ==
    law # <<>> /\ law.phase = "out" => law.left = law.right

----------------------------------------------------------------------------
(* The cache services called directly, by any number of callers in any     *)
(* order: every call is one Redis command or one MULTI/EXEC pipeline.      *)
(* Here law is the observer's notebook: the clock, the last call with its  *)
(* arguments and result, and what the observer knows of earlier calls.     *)

NoCall == [op |-> "none", ids |-> <<>>, ret |-> <<>>]

\* lists of event ids passed to the batch calls, repeats included
IdLists == SeqsUpTo(EventIds, MaxLen)

\* the notebook after marks of the ids S were issued: when the latest mark
\* of an id was issued, and until when the key it found or created lives
NoteMarks(l, S) ==
    [l EXCEPT
       !.issued = [id \in EventIds |->
                     IF id \in S THEN l.clock ELSE l.issued[id]],
       !.live_until = [id \in EventIds |->
                         IF id \in S /\ l.clock >= l.live_until[id]
                         THEN l.clock + IdemTTL ELSE l.live_until[id]]]

CacheInit ==
    /\ seen = [id \in EventIds |-> 0]
    /\ rate = [c \in Clients |-> [count |-> 0, ttl |-> 0]]
    /\ stream = <<>>
    /\ store = <<>>
    /\ events_failed_total =
         [reason \in {"ingestion_error", "decode_error", "processing_error"} |-> 0]
    /\ req = [r \in Reqs |-> IdleReq]
    /\ wk = [w \in Workers |-> IdleWorker]
    /\ law = [clock |-> 0,
              issued |-> [id \in EventIds |-> -1],
              live_until |-> [id \in EventIds |-> 0],
              last_true |-> [id \in EventIds |-> -1],
              call |-> NoCall]

\* a caller runs is_duplicate(id)
IsDuplicate(id) ==
    /\ law' = [law EXCEPT !.call = [op |-> "is_duplicate", ids |-> <<id>>,
                                    ret |-> is_duplicate(seen, id)]]
    /\ UNCHANGED <<seen, rate, stream, store, events_failed_total, req, wk>>

\* a caller runs mark_as_seen(id)
MarkAsSeen(id) ==
    LET m == mark_as_seen(seen, id)
        noted == NoteMarks(law, {id})
    IN  /\ seen' = m.cache
        /\ law' = [noted EXCEPT
                     !.call = [op |-> "mark_as_seen", ids |-> <<id>>,
                               ret |-> m.result],
                     !.last_true[id] = IF m.result THEN law.clock ELSE @]
        /\ UNCHANGED <<rate, stream, store, events_failed_total, req, wk>>

\* a caller runs check_batch(ids)
CheckBatchCall(ids) ==
    /\ law' = [law EXCEPT !.call = [op |-> "check_batch", ids |-> ids,
                                    ret |-> check_batch(seen, ids)]]
    /\ UNCHANGED <<seen, rate, stream, store, events_failed_total, req, wk>>

\* a caller runs mark_batch_as_seen(ids)
MarkBatchCall(ids) ==
    /\ seen' = mark_batch_as_seen(seen, ids)
    /\ law' = [NoteMarks(law, Range(ids)) EXCEPT
                 !.call = [op |-> "mark_batch_as_seen", ids |-> ids,
                           ret |-> <<>>]]
    /\ UNCHANGED <<rate, stream, store, events_failed_total, req, wk>>

\* one clock tick passes
Elapse ==
    /\ law.clock < MaxClock
    /\ seen' = expire_keys(seen)
    /\ rate' = expire_counters(rate)
    /\ law' = [law EXCEPT !.clock = @ + 1, !.call = NoCall]
    /\ UNCHANGED <<stream, store, events_failed_total, req, wk>>

CacheNext ==
    \/ \E id \in EventIds : IsDuplicate(id)
    \/ \E id \in EventIds : MarkAsSeen(id)
    \/ \E ids \in IdLists : CheckBatchCall(ids)
    \/ \E ids \in IdLists : MarkBatchCall(ids)
    \/ Elapse

CacheSpec == CacheInit /\ [][CacheNext]_vars

----------------------------------------------------------------------------
(* Properties of the dedup cache.                                          *)

\* how often id occurs in the list s
Occurrences(s, id) == Cardinality({i \in DOMAIN s : s[i] = id})

\* the last call was an is_duplicate or a check_batch that covered id
LookedUp(id) ==
    /\ law.call.op \in {"is_duplicate", "check_batch"}
    /\ id \in Range(law.call.ids)

\* the last call was a lookup that covered id and reported it duplicate
ReportedDuplicate(id) ==
    \/ /\ law.call.op = "is_duplicate"
       /\ law.call.ids = <<id>>
       /\ law.call.ret = TRUE
    \/ /\ law.call.op = "check_batch"
       /\ id \in Range(law.call.ret.duplicate_ids)

\* the last call was a lookup that covered id and reported it new
ReportedNew(id) ==
    \/ /\ law.call.op = "is_duplicate"
       /\ law.call.ids = <<id>>
       /\ law.call.ret = FALSE
    \/ /\ law.call.op = "check_batch"
       /\ id \in Range(law.call.ret.new_ids)

\* C11: while the key of a marked id has not reached the end of its TTL,
\* every is_duplicate and every check_batch on that id reports it duplicate,
\* whatever marks and lookups of other callers come in between.
C11_MarkedStaysDuplicate ==
    \A id \in EventIds :
        (law.clock < law.live_until[id] /\ LookedUp(id)) =>
            (ReportedDuplicate(id) /\ ~ReportedNew(id))

\* one tick after "a" was marked, a check_batch of both ids reports "a"
\* duplicate and "b" new
C11_Witness ==
    /\ law.clock >= 1
    /\ law.clock < law.live_until["a"]
    /\ law.call.op = "check_batch"
    /\ law.call.ids = <<"a", "b">>
    /\ law.call.ret.duplicate_ids = <<"a">>
    /\ law.call.ret.new_ids = <<"b">>

\* C12: an id is reported duplicate only if a mark_as_seen or
\* mark_batch_as_seen of that very id was issued less than the TTL ago;
\* marks of other ids never make it a duplicate.
C12_NoFalsePositive ==
    \A id \in EventIds :
        ReportedDuplicate(id) =>
            /\ law.issued[id] >= 0
            /\ law.clock - law.issued[id] < IdemTTL

\* "a" is marked, "b" never was, and is_duplicate("b") answers False
C12_Witness ==
    /\ seen["a"] > 0
    /\ law.issued["a"] >= 0
    /\ law.issued["b"] = -1
    /\ law.call.op = "is_duplicate"
    /\ law.call.ids = <<"b">>
    /\ law.call.ret = FALSE

\* C13: check_batch(ids) puts every occurrence in exactly one of the two
\* lists, so the lengths add up to len(ids); duplicate holds exactly the ids
\* whose key exists, new exactly those whose key does not; the call changes
\* no cache entry.
C13_CheckBatchPartitions ==
    [][law'.call.op = "check_batch" =>
          LET ids == law'.call.ids
              new == law'.call.ret.new_ids
              dup == law'.call.ret.duplicate_ids
          IN  /\ Len(new) + Len(dup) = Len(ids)
              /\ \A id \in EventIds :
                    /\ Occurrences(new, id) + Occurrences(dup, id)
                         = Occurrences(ids, id)
                    /\ ~(id \in Range(new) /\ id \in Range(dup))
              /\ Range(dup) = {id \in Range(ids) : seen[id] > 0}
              /\ Range(new) = {id \in Range(ids) : seen[id] = 0}
              /\ seen' = seen
              /\ rate' = rate]_vars

\* a list that repeats a marked id: both occurrences are duplicates
C13_Witness ==
    /\ law.call.op = "check_batch"
    /\ law.call.ids = <<"a", "a">>
    /\ law.call.ret.duplicate_ids = <<"a", "a">>
    /\ law.call.ret.new_ids = <<>>

\* C14: mark_as_seen(id) returns True exactly when the key was absent and
\* then creates it with the configured TTL; on a present key it returns
\* False and leaves the entry and its remaining time-to-live as they were;
\* no other key changes, and two calls on one id that both return True are
\* at least a TTL apart.
C14_SetIfAbsent ==
    [][law'.call.op = "mark_as_seen" =>
          LET id == law'.call.ids[1]
          IN  /\ law'.call.ret = (seen[id] = 0)
              /\ seen'[id] = IF seen[id] = 0 THEN IdemTTL ELSE seen[id]
              /\ \A other \in EventIds \ {id} : seen'[other] = seen[other]
              /\ law'.call.ret = TRUE =>
                    \/ law.last_true[id] = -1
                    \/ law.clock - law.last_true[id] >= IdemTTL]_vars

\* a second writer found the key of "a" with one tick left: it got False and
\* the key still has one tick left
C14_Witness ==
    /\ law.call.op = "mark_as_seen"
    /\ law.call.ids = <<"a">>
    /\ law.call.ret = FALSE
    /\ law.last_true["a"] >= 0
    /\ seen["a"] = 1
    /\ IdemTTL > 1

----------------------------------------------------------------------------
(* The rate limiter called directly by the clients, in any order, while    *)
(* time passes.  law.enabled is settings.rate_limit_enabled, fixed at      *)
(* start; law.log lists the calls made so far with their results.          *)

RateInit ==
    /\ seen = [id \in EventIds |-> 0]
    /\ rate = [c \in Clients |-> [count |-> 0, ttl |-> 0]]
    /\ stream = <<>>
    /\ store = <<>>
    /\ events_failed_total =
         [reason \in {"ingestion_error", "decode_error", "processing_error"} |-> 0]
    /\ req = [r \in Reqs |-> IdleReq]
    /\ wk = [w \in Workers |-> IdleWorker]
    /\ law \in {[clock |-> 0, enabled |-> e, log |-> <<>>, call |-> NoCall] :
                  e \in BOOLEAN}

\* client c calls is_allowed
IsAllowed(c) ==
    /\ Len(law.log) < MaxCalls
    /\ LET res == is_allowed(rate, c, law.enabled)
           entry == [client |-> c, at |-> law.clock,
                     allowed |-> res.allowed, remaining |-> res.remaining]
       IN  /\ rate' = res.rate
           /\ law' = [law EXCEPT
                        !.log = Append(@, entry),
                        !.call = [op |-> "is_allowed", ids |-> <<c>>,
                                  ret |-> entry]]
    /\ UNCHANGED <<seen, stream, store, events_failed_total, req, wk>>

RateNext ==
    \/ \E c \in Clients : IsAllowed(c)
    \/ Elapse

RateSpec == RateInit /\ [][RateNext]_vars

----------------------------------------------------------------------------
(* Properties of the rate limiter.                                         *)

\* the calls of client c so far, in order
CallsOf(c) == SelectSeq(law.log, LAMBDA e : e.client = c)

\* how many calls of client c at a clock time in from..to were allowed
AllowedIn(c, from, to) ==
    Cardinality({i \in DOMAIN CallsOf(c) :
                   /\ CallsOf(c)[i].allowed
                   /\ CallsOf(c)[i].at >= from
                   /\ CallsOf(c)[i].at <= to})

\* C15: with the limiter enabled, no client gets more than max_requests
\* calls allowed within a window of RateWindow ticks, and never more than
\* 2 * max_requests within a wall-clock interval of window length with both
\* its ends, a burst on either side of an expiry included.
C15_AdmittedPerWindow ==
    law.enabled =>
        \A c \in Clients : \A t \in 0..MaxClock :
            /\ AllowedIn(c, t, t + RateWindow - 1) <= RateLimitRequests
            /\ AllowedIn(c, t, t + RateWindow) <= 2 * RateLimitRequests

\* a client was allowed max_requests calls, then denied, and after the expiry
\* of its counter allowed again
C15_Witness ==
    /\ law.enabled
    /\ \E c \in Clients :
          /\ AllowedIn(c, 0, 0) = RateLimitRequests
          /\ \E i \in DOMAIN CallsOf(c) : ~CallsOf(c)[i].allowed
          /\ AllowedIn(c, RateWindow, MaxClock) >= 1

RECURSIVE WindowStart(_, _)
\* the start of the fixed window the i-th call of the list falls in: a
\* window starts with the first call and lasts RateWindow ticks, the first
\* call after its end starts the next one
WindowStart(calls, i) ==
    IF i = 1 THEN calls[1].at
    ELSE LET s == WindowStart(calls, i - 1)
         IN  IF calls[i].at - s >= RateWindow THEN calls[i].at ELSE s

\* the i-th call of the list is the first call of a fixed window
StartsWindow(calls, i) ==
    \/ i = 1
    \/ calls[i].at - WindowStart(calls, i - 1) >= RateWindow

\* C17: the counter created by the first request of a window expires
\* RateWindow ticks after that request, so the first call made after the end
\* of a window starts a new count and is allowed, also for a client that was
\* denied in the window before; a counter never outlives its window.
C17_FixedWindowExpiry ==
    (law.enabled /\ RateLimitRequests >= 1) =>
        \A c \in Clients :
            /\ \A i \in DOMAIN CallsOf(c) :
                  StartsWindow(CallsOf(c), i) => CallsOf(c)[i].allowed
            /\ rate[c].count > 0 =>
                  law.clock < WindowStart(CallsOf(c), Len(CallsOf(c)))
                                + RateWindow

\* C19: a call of is_allowed for one client changes neither the counter nor
\* the expiry of any other client, nor the result the other client's next
\* call gets, also after the caller has used up its limit.
C19_ClientsIndependent ==
    [][law'.call.op = "is_allowed" =>
          \A other \in Clients \ {law'.call.ids[1]} :
              /\ rate'[other] = rate[other]
              /\ is_allowed_result(rate'[other].count + 1)
                   = is_allowed_result(rate[other].count + 1)]_vars

\* c1 is over its limit and has just been denied; c2, with fewer calls than
\* the limit so far, still has its own count
C19_Witness ==
    /\ law.enabled
    /\ law.call.op = "is_allowed"
    /\ law.call.ids = <<"c1">>
    /\ ~law.call.ret.allowed
    /\ rate["c1"].count > RateLimitRequests
    /\ rate["c2"].count = 1
    /\ Len(CallsOf("c2")) = 1
    /\ CallsOf("c2")[1].allowed

\* C20: with the enable flag false every is_allowed call of every client
\* returns (True, max_requests) and no counter or expiry is created or
\* changed.
C20_DisabledAlwaysAllows ==
    /\ [](~law.enabled =>
            /\ \A i \in DOMAIN law.log :
                  /\ law.log[i].allowed
                  /\ law.log[i].remaining = RateLimitRequests
            /\ \A c \in Clients : rate[c] = [count |-> 0, ttl |-> 0])
    /\ [][(~law.enabled /\ law'.call.op = "is_allowed") => rate' = rate]_vars

\* with the limiter off one client made more calls than max_requests at one
\* instant and all were allowed
C20_Witness ==
    /\ ~law.enabled
    /\ Len(CallsOf("c1")) > RateLimitRequests
    /\ \A i \in DOMAIN CallsOf("c1") :
          CallsOf("c1")[i].allowed /\ CallsOf("c1")[i].at = 0
    /\ rate["c1"].count = 0

----------------------------------------------------------------------------
(* Properties of the rate limit on POST /events.                           *)

\* the requests of client c that have arrived
ArrivedFrom(c) == {r \in Reqs : req[r].pc # "idle" /\ req[r].client = c}

\* C18: a request that arrives when its client has already made
\* max_requests requests in the window is answered 429 with
\* X-RateLimit-Remaining 0, and ingest_events does not run for it: no dedup
\* lookup, no cache mark, no publish.
C18_OverLimitAnswered429 ==
    /\ [][\A r \in Reqs :
             (/\ req[r].pc = "idle"
              /\ req'[r].pc # "idle"
              /\ Cardinality(ArrivedFrom(req'[r].client)) >= RateLimitRequests)
             => /\ req'[r].status = 429
                /\ req'[r].pc = "done"
                /\ req'[r].remaining = 0
                /\ seen' = seen
                /\ stream' = stream
                /\ store' = store]_vars
    /\ [](\A r \in Reqs :
             req[r].status = 429 =>
                 /\ req[r].pc = "done"
                 /\ req[r].new_ids = <<>>
                 /\ req[r].duplicate_ids = <<>>
                 /\ req[r].new_events = <<>>
                 /\ PublishedBy(r) = <<>>)

\* the first request of c1 was accepted, its next one, with a valid batch of
\* an unseen id, was answered 429 and nothing of it was marked or published
C18_Witness ==
    /\ req["r1"].client = "c1"
    /\ req["r1"].status = 202
    /\ req["r1"].batch = <<Ev("a", "u1", 0)>>
    /\ req["r2"].client = "c1"
    /\ req["r2"].status = 429
    /\ req["r2"].remaining = 0
    /\ req["r2"].batch = <<Ev("b", "u1", 0)>>
    /\ seen["b"] = 0
    /\ PublishedBy("r2") = <<>>

----------------------------------------------------------------------------
(* Worker dispositions.                                                    *)

\* the payload of message i of the stream is not JSON
Malformed(i) == ~json_loads(stream[i].data).ok

\* worker w finishes its attempt on the message it holds in this step
Disposes(w) ==
    /\ wk[w].pc \in {"for", "ack"}
    /\ wk'[w].pc # wk[w].pc \/ wk'[w].i # wk[w].i

C22_AckedIsStored ==
    \A i \in DOMAIN stream :
        stream[i].state = "acked" =>
            /\ json_loads(stream[i].data).ok
            /\ json_loads(stream[i].data).value.event_id \in StoredIds

\* a message was acknowledged after one delivery
C22_Witness ==
    \E i \in DOMAIN stream :
        /\ stream[i].state = "acked"
        /\ stream[i].deliveries = 1
        /\ \E k \in DOMAIN store : store[k] = json_loads(stream[i].data).value


\* worker w's attempt on the message it holds fails in this step
FailsAttempt(w) ==
    /\ Disposes(w)
    /\ wk[w].pc = "for"
    /\ ~wk[w].shutdown_flag
    /\ ~Malformed(Cur(w))
    /\ wk'[w].pc # "ack"

\* C23: when the insert of a delivered event fails, that step requeues the
\* message with a delay of 5 seconds, adds exactly 1 to the processing-error
\* count and leaves the store unchanged; the requeued message is pending
\* again, so it is redelivered while it has had fewer than 3 deliveries; a
\* delivery is only ever made of a pending message with fewer than 3
\* deliveries, so no message is delivered more than 3 times and none is
\* delivered again after a failed third delivery.
C23_FailedInsertRetried ==
    [][/\ \A w \in Workers :
            (FailsAttempt(w) /\ stream[Cur(w)].state = "inflight") =>
                /\ stream'[Cur(w)].state = "pending"
                /\ stream'[Cur(w)].delay = NakDelay
                /\ stream'[Cur(w)].deliveries = stream[Cur(w)].deliveries
                /\ events_failed_total' =
                     Inc(events_failed_total, "processing_error")
                /\ store' = store
       /\ \A i \in DOMAIN stream :
            /\ stream'[i].deliveries <= MaxDeliver
            /\ stream'[i].deliveries # stream[i].deliveries =>
                 /\ stream[i].state = "pending"
                 /\ stream[i].deliveries < MaxDeliver
                 /\ stream'[i].deliveries = stream[i].deliveries + 1
                 /\ stream'[i].state = "inflight"]_vars

\* the third delivery of a message failed: it is requeued, not deliverable,
\* and every failed attempt was counted
C23_Witness ==
    \E i \in DOMAIN stream :
        /\ stream[i].deliveries = MaxDeliver
        /\ stream[i].state = "pending"
        /\ stream[i].delay = NakDelay
        /\ ValidEvent(json_loads(stream[i].data).value)
        /\ events_failed_total["processing_error"] >= MaxDeliver
        /\ store = <<>>


\* C24: once the signal has set the shutdown flag the worker eventually
\* leaves the fetch loop; while the flag is set it starts no fetch; and an
\* attempt that is under way when the flag is set is still completed with
\* its disposition.
C24_GracefulStop ==
    /\ \A w \in {"w1"} : wk[w].shutdown_flag ~> wk[w].pc = "exit"
    /\ [][\A w \in {"w1"} :
            /\ (wk[w].shutdown_flag /\ wk[w].pc = "loop") =>
                 /\ wk'[w].pc # "for"
                 /\ \A i \in DOMAIN stream :
                      stream'[i].deliveries = stream[i].deliveries
            /\ (wk[w].shutdown_flag /\ wk[w].pc = "ack" /\ wk'[w] # wk[w]) =>
                 stream'[Cur(w)].state \in {"acked", "termed"}]_vars

\* the flag is set while an attempt is under way
C24_Witness ==
    /\ wk["w1"].shutdown_flag
    /\ wk["w1"].pc = "ack"
    /\ stream[Cur("w1")].state = "inflight"


\* C25: when run_worker returns after a graceful shutdown, the worker has
\* closed its queue client.
C25_ClientClosedOnExit ==
    \A w \in Workers : wk[w].pc = "exit" => wk[w].nats_client = "closed"

----------------------------------------------------------------------------
(* The event store writer called directly.  Each session runs one          *)
(* insert_events call at a time as the database sees it: a statement per   *)
(* event inside the session's transaction, then the commit.  law holds the *)
(* sessions; store holds the committed rows.                               *)

Sessions == {"s1", "s2"}

\* the event lists handed to insert_events, repeated event_ids included
EventLists == SeqsUpTo(GoodEvents, MaxLen) \ {<<>>}

IdleSession ==
    [pc |-> "idle", events |-> <<>>, k |-> 0, pending |-> <<>>,
     inserted |-> 0, duplicates |-> 0, raised |-> FALSE]

SetSession(s, rec) == law' = [law EXCEPT ![s] = rec]

\* result.rowcount of one INSERT ... ON CONFLICT DO NOTHING RETURNING id
rowcount_ignoring_conflict(rows, after) == 1

rowcount(rows, after) == Len(after) - Len(rows)

\* session.rollback() / session.close() of get_session: the rows of the
\* transaction are discarded
rollback_partial(rows, pending) == rows \o pending

rollback(rows, pending) == rows

\* session.commit(): the rows of the transaction become visible
commit(rows, pending) == rows \o pending

TxnInit ==
    /\ seen = [id \in EventIds |-> 0]
    /\ rate = [c \in Clients |-> [count |-> 0, ttl |-> 0]]
    /\ stream = <<>>
    /\ store = <<>>
    /\ events_failed_total =
         [reason \in {"ingestion_error", "decode_error", "processing_error"} |-> 0]
    /\ req = [r \in Reqs |-> IdleReq]
    /\ wk = [w \in Workers |-> IdleWorker]
    /\ law = [s \in Sessions |-> IdleSession]

\* insert_events(events) is entered: inserted = 0, duplicates = 0
InsertCall(s, events) ==
    /\ law[s].pc = "idle"
    /\ SetSession(s, [IdleSession EXCEPT !.pc = "open", !.events = events,
                                         !.k = 1])
    /\ UNCHANGED <<seen, rate, stream, store, events_failed_total, req, wk>>

\* the event_ids another open transaction has inserted and not yet committed
HeldByOthers(s) ==
    UNION {{law[t].pending[j].event_id : j \in DOMAIN law[t].pending} :
             t \in Sessions \ {s}}

\* one pass of the for loop: the statement sees the committed rows and the
\* rows of its own transaction; it waits while another transaction holds an
\* uncommitted row with the same event_id
InsertStatement(s) ==
    /\ law[s].pc = "open"
    /\ law[s].k <= Len(law[s].events)
    /\ LET e       == law[s].events[law[s].k]
           visible == store \o law[s].pending
           after   == insert_on_conflict(visible, e)
       IN  /\ e.event_id \notin HeldByOthers(s)
           /\ IF rowcount(visible, after) > 0
              THEN SetSession(s, [law[s] EXCEPT
                       !.k = @ + 1, !.inserted = @ + 1,
                       !.pending = SubSeq(after, Len(store) + 1, Len(after))])
              ELSE SetSession(s, [law[s] EXCEPT
                       !.k = @ + 1, !.duplicates = @ + 1,
                       !.pending = SubSeq(after, Len(store) + 1, Len(after))])
    /\ UNCHANGED <<seen, rate, stream, store, events_failed_total, req, wk>>

\* a statement or the commit raises: the exception propagates, the session
\* is rolled back and closed
InsertRaises(s) ==
    /\ law[s].pc = "open"
    /\ store' = rollback(store, law[s].pending)
    /\ SetSession(s, [law[s] EXCEPT !.pc = "done", !.raised = TRUE,
                                    !.pending = <<>>])
    /\ UNCHANGED <<seen, rate, stream, events_failed_total, req, wk>>

\* await self.session.commit(); return inserted, duplicates
InsertCommit(s) ==
    /\ law[s].pc = "open"
    /\ law[s].k > Len(law[s].events)
    /\ store' = commit(store, law[s].pending)
    /\ SetSession(s, [law[s] EXCEPT !.pc = "done", !.pending = <<>>])
    /\ UNCHANGED <<seen, rate, stream, events_failed_total, req, wk>>

\* the caller has the result (or the exception); the session is free again
InsertReturn(s) ==
    /\ law[s].pc = "done"
    /\ SetSession(s, IdleSession)
    /\ UNCHANGED <<seen, rate, stream, store, events_failed_total, req, wk>>

TxnNext ==
    \/ \E s \in Sessions, events \in EventLists : InsertCall(s, events)
    \/ \E s \in Sessions : InsertStatement(s)
    \/ \E s \in Sessions : InsertRaises(s)
    \/ \E s \in Sessions : InsertCommit(s)
    \/ \E s \in Sessions : InsertReturn(s)

TxnSpec == TxnInit /\ [][TxnNext]_vars


----------------------------------------------------------------------------
(* Properties of the store writer.                                         *)

\* the positions of events whose event_id is neither in rows nor earlier in
\* the list
NewAt(rows, events) ==
    {j \in DOMAIN events :
        /\ \A i \in DOMAIN rows : rows[i].event_id # events[j].event_id
        /\ \A h \in 1..(j - 1) : events[h].event_id # events[j].event_id}

\* session s returns from insert_events with its counts in this step
Returns(s) ==
    /\ law[s].pc = "open"
    /\ law'[s].pc = "done"
    /\ ~law'[s].raised

\* C26: when insert_events(events) returns (inserted, duplicates), the two
\* add up to len(events); inserted is the number of rows the call added to
\* the store, which are the first occurrences of the event_ids the store did
\* not hold, and duplicates counts every other event of the list.
C26_InsertCounts ==
    [][\A s \in Sessions :
         Returns(s) =>
           LET new == NewAt(store, law[s].events)
           IN  /\ law'[s].inserted + law'[s].duplicates = Len(law[s].events)
               /\ law'[s].inserted = Len(store') - Len(store)
               /\ law'[s].inserted = Cardinality(new)
               /\ SubSeq(store', 1, Len(store)) = store
               /\ {store'[i] : i \in (Len(store) + 1)..Len(store')} =
                    {law[s].events[j] : j \in new}]_vars

\* a call with a repeated event_id returned: one row added, one collision
C26_Witness ==
    \E s \in Sessions :
        /\ law[s].pc = "done"
        /\ ~law[s].raised
        /\ Len(law[s].events) = 2
        /\ law[s].events[1].event_id = law[s].events[2].event_id
        /\ law[s].events[1] # law[s].events[2]
        /\ law[s].inserted = 1
        /\ law[s].duplicates = 1
        /\ store = <<law[s].events[1]>>

\* session s leaves insert_events with an exception in this step
RaisesNow(s) ==
    /\ law[s].pc = "open"
    /\ law'[s].pc = "done"
    /\ law'[s].raised

\* C27: insert_events is all-or-nothing.  The step in which a call raises
\* leaves the store as it is and discards the rows of its transaction; the
\* store changes only in the step in which a call commits, and then by
\* exactly the rows of that call's transaction; until then none of them is
\* in the store.
C27_AllOrNothing ==
    [][/\ \A s \in Sessions :
            RaisesNow(s) => (store' = store /\ law'[s].pending = <<>>)
       /\ \/ store' = store
          \/ \E s \in Sessions :
                 /\ Returns(s)
                 /\ law[s].k > Len(law[s].events)
                 /\ store' = store \o law[s].pending
       /\ \A s \in Sessions :
            \A j \in DOMAIN law[s].pending, i \in DOMAIN store :
                store[i].event_id # law[s].pending[j].event_id]_vars

\* a call raised after its first statement had inserted a row, and no row
\* of it is in the store
C27_Witness ==
    \E s \in Sessions :
        /\ law[s].pc = "done"
        /\ law[s].raised
        /\ law[s].inserted >= 1
        /\ store = <<>>


----------------------------------------------------------------------------
(* Application lifespan: app/main.py.  law holds the process: its position *)
(* in lifespan, the state of its three connections, the order in which     *)
(* they were initialized and closed, and the dependencies as the process   *)
(* finds them.                                                             *)

\* what add_stream can answer
StreamReplies == {"created", "already_exists", "config_mismatch", "unavailable"}

\* the dependencies as startup finds them
Environments ==
    [db_up : BOOLEAN, redis_up : BOOLEAN, nats_up : BOOLEAN,
     add_stream : StreamReplies]

LifeInit ==
    /\ seen = [id \in EventIds |-> 0]
    /\ rate = [c \in Clients |-> [count |-> 0, ttl |-> 0]]
    /\ stream = <<>>
    /\ store = <<>>
    /\ events_failed_total =
         [reason \in {"ingestion_error", "decode_error", "processing_error"} |-> 0]
    /\ req = [r \in Reqs |-> IdleReq]
    /\ wk = [w \in Workers |-> IdleWorker]
    /\ \E env \in Environments :
         law = [pc |-> "db", env |-> env, engine |-> "none",
                redis_client |-> "none", nats_client |-> "none",
                declared |-> FALSE, initialized |-> <<>>, closed |-> <<>>]

LifeStep(rec) ==
    /\ law' = rec
    /\ UNCHANGED <<seen, rate, stream, store, events_failed_total, req, wk>>

\* db_ok = await check_db_connection(): the engine is created; a failed
\* SELECT 1 is logged and startup goes on
CheckDb ==
    /\ law.pc = "db"
    /\ LifeStep([law EXCEPT
           !.pc = "redis",
           !.engine = IF law.env.db_up THEN "connected" ELSE "unreachable",
           !.initialized = Append(@, "db")])

\* redis_client = await get_redis_client(); await redis_client.ping(): a
\* failed ping raises out of lifespan
PingRedis ==
    /\ law.pc = "redis"
    /\ LifeStep([law EXCEPT
           !.pc = IF law.env.redis_up THEN "nats" ELSE "failed",
           !.redis_client = IF law.env.redis_up THEN "connected"
                            ELSE "unreachable",
           !.initialized = Append(@, "redis")])

\* get_nats_client: await _nats_client.connect(settings.nats_url); a failed
\* connect raises out of lifespan
ConnectNats ==
    /\ law.pc = "nats"
    /\ LifeStep([law EXCEPT
           !.pc = IF law.env.nats_up THEN "add_stream" ELSE "failed",
           !.nats_client = IF law.env.nats_up THEN "connected"
                           ELSE "unreachable",
           !.initialized = Append(@, "nats")])

\* get_nats_client: add_stream inside try / except Exception: whatever the
\* broker answers, a warning at most is logged; then lifespan yields
AddStream ==
    /\ law.pc = "add_stream"
    /\ LifeStep([law EXCEPT
           !.pc = "serving",
           !.declared = law.env.add_stream \in {"created", "already_exists"}])

\* the server stops: lifespan resumes after its yield
StopServing ==
    /\ law.pc = "serving"
    /\ LifeStep([law EXCEPT !.pc = "close_db"])

\* await close_db_connection()
CloseDb ==
    /\ law.pc = "close_db"
    /\ LifeStep([law EXCEPT !.pc = "close_redis", !.engine = "none",
                             !.closed = Append(@, "db")])

\* await close_redis_client()
CloseRedis ==
    /\ law.pc = "close_redis"
    /\ LifeStep([law EXCEPT !.pc = "close_nats", !.redis_client = "none",
                             !.closed = Append(@, "redis")])

\* await close_nats_client()
CloseNats ==
    /\ law.pc = "close_nats"
    /\ LifeStep([law EXCEPT !.pc = "stopped", !.nats_client = "none",
                             !.closed = Append(@, "nats")])

LifeNext ==
    \/ CheckDb
    \/ PingRedis
    \/ ConnectNats
    \/ AddStream
    \/ StopServing
    \/ CloseDb
    \/ CloseRedis
    \/ CloseNats

LifeSpec == LifeInit /\ [][LifeNext]_vars

----------------------------------------------------------------------------
(* Properties of the lifespan.                                             *)

\* C28: the application serves only if the store, the cache and the queue
\* answered at startup and the stream was declared or already existed.
C28_StartupFailureFatal ==
    law.pc = "serving" =>
        /\ law.env.db_up
        /\ law.env.redis_up
        /\ law.env.nats_up
        /\ law.env.add_stream \in {"created", "already_exists"}

RECURSIVE Reverse(_)
Reverse(s) == IF s = <<>> THEN <<>> ELSE Append(Reverse(Tail(s)), Head(s))

\* C29: when shutdown is complete, the connections have been closed in the
\* reverse of the order in which they were initialized.
C29_ClosedInReverseOrder ==
    law.pc = "stopped" => law.closed = Reverse(law.initialized)


----------------------------------------------------------------------------
(* Retention query: EventService.get_retention behind GET /stats/retention.*)
(* Dates are day numbers; law holds the last query and what it returned.   *)

\* windows: int = Query(3, ge=1, le=10)
MaxWindows == 10
\* RetentionCohort declares window_1..window_3, retention_rate_1..3
CohortFields == 3

RetUsers == {"u1", "u2", "u3"}
RetDays == {0, 1, 7}
StartDates == {0, 1}
WindowTypes == {"daily", "weekly"}

\* one row per user and day of activity, in a fixed order
ActivitySlots ==
    <<[u |-> "u1", d |-> 0], [u |-> "u1", d |-> 1], [u |-> "u1", d |-> 7],
      [u |-> "u2", d |-> 0], [u |-> "u2", d |-> 1], [u |-> "u2", d |-> 7],
      [u |-> "u3", d |-> 0], [u |-> "u3", d |-> 1], [u |-> "u3", d |-> 7]>>

RECURSIVE ActivityRows(_, _)
\* the events table for the activity active: slot k onwards
ActivityRows(active, k) ==
    IF k > Len(ActivitySlots) THEN <<>>
    ELSE LET p == ActivitySlots[k]
         IN  IF p.d \in active[p.u]
             THEN <<Ev(<<p.u, p.d>>, p.u, p.d)>> \o ActivityRows(active, k + 1)
             ELSE ActivityRows(active, k + 1)

\* SELECT DISTINCT user_id FROM events WHERE DATE(occurred_at) = :day
\* [AND user_id = ANY(:users)]
active_users(rows, day, users) ==
    {rows[i].user_id : i \in {j \in DOMAIN rows : rows[j].occurred_at = day}}
      \cap users

\* datetime.fromisoformat(start_date) + timedelta(days=window) or
\* timedelta(weeks=window)
window_date(start_date, window, window_type) ==
    IF window_type = "daily" THEN start_date + window
    ELSE start_date + 7 * window

\* round(retained / cohort * 100, 2), in hundredths of a percent; a tie goes
\* to the even neighbour
round2(retained, cohort) ==
    LET x == retained * 10000
        q == x \div cohort
        r == x % cohort
    IN  IF 2 * r > cohort THEN q + 1
        ELSE IF 2 * r < cohort THEN q
        ELSE q + (q % 2)

\* RetentionCohort(cohort_start=start_date, window_0=len(cohort_users))
RetentionCohort(start_date, size) ==
    [cohort_start |-> start_date, window_0 |-> size,
     window |-> [k \in 1..CohortFields |-> "None"],
     retention_rate |-> [k \in 1..CohortFields |-> "None"]]

RECURSIVE retention_windows(_, _, _, _, _, _, _)
\* for window in range(1, windows + 1): setattr on the cohort model raises
\* for a field the model does not declare
retention_windows(rows, cohort, users, start_date, windows, window_type, k) ==
    IF k > windows
    THEN [raised |-> FALSE, cohorts |-> <<cohort>>]
    ELSE IF k \notin DOMAIN cohort.window
    THEN [raised |-> TRUE, cohorts |-> <<>>]
    ELSE LET day      == window_date(start_date, k, window_type)
             retained == Cardinality(active_users(rows, day, users))
         IN  retention_windows(rows,
                 [cohort EXCEPT !.window[k] = retained,
                                !.retention_rate[k] =
                                    round2(retained, Cardinality(users))],
                 users, start_date, windows, window_type, k + 1)

\* get_retention(start_date, windows, window_type)
get_retention(rows, start_date, windows, window_type) ==
    LET cohort_users == active_users(rows, start_date, RetUsers)
    IN  IF cohort_users = {}
        THEN [raised |-> FALSE, cohorts |-> <<>>]
        ELSE retention_windows(rows,
                 RetentionCohort(start_date, Cardinality(cohort_users)),
                 cohort_users, start_date, windows, window_type, 1)

NoQuery == [start_date |-> -1, windows |-> 0, window_type |-> "none"]

RetentionInit ==
    /\ seen = [id \in EventIds |-> 0]
    /\ rate = [c \in Clients |-> [count |-> 0, ttl |-> 0]]
    /\ stream = <<>>
    /\ \E active \in [RetUsers -> SUBSET RetDays] :
         store = ActivityRows(active, 1)
    /\ events_failed_total =
         [reason \in {"ingestion_error", "decode_error", "processing_error"} |-> 0]
    /\ req = [r \in Reqs |-> IdleReq]
    /\ wk = [w \in Workers |-> IdleWorker]
    /\ law = [call |-> NoQuery, result |-> [raised |-> FALSE, cohorts |-> <<>>]]

\* GET /stats/retention?start_date=D&windows=W&window_type=T
Retention(start_date, windows, window_type) ==
    /\ law' = [call |-> [start_date |-> start_date, windows |-> windows,
                         window_type |-> window_type],
               result |-> get_retention(store, start_date, windows,
                                        window_type)]
    /\ UNCHANGED <<seen, rate, stream, store, events_failed_total, req, wk>>

RetentionNext ==
    \E D \in StartDates, W \in 1..MaxWindows, T \in WindowTypes :
        Retention(D, W, T)

RetentionSpec == RetentionInit /\ [][RetentionNext]_vars

----------------------------------------------------------------------------
(* Properties of the retention query.                                      *)

\* the users with an event on the given day
ActiveOn(day) ==
    {u \in RetUsers :
        \E i \in DOMAIN store :
            store[i].user_id = u /\ store[i].occurred_at = day}

\* C30: for every start date D, window count W in 1..10 and window kind, a
\* query over an empty cohort returns no cohort, and a query over a
\* non-empty cohort returns one cohort with window_0 = the cohort size and,
\* for every k in 1..W, window_k = the number of cohort members with an event
\* on D + k windows and retention_rate_k = that number over window_0 as a
\* percentage rounded to two places.
C30_RetentionPerWindow ==
    law.call # NoQuery =>
        LET D      == law.call.start_date
            W      == law.call.windows
            step   == IF law.call.window_type = "daily" THEN 1 ELSE 7
            cohort == ActiveOn(D)
            size   == Cardinality(cohort)
        IN  IF cohort = {}
            THEN ~law.result.raised /\ law.result.cohorts = <<>>
            ELSE /\ ~law.result.raised
                 /\ Len(law.result.cohorts) = 1
                 /\ law.result.cohorts[1].window_0 = size
                 /\ \A k \in 1..W :
                      LET n == Cardinality(cohort \cap ActiveOn(D + k * step))
                      IN  /\ k \in DOMAIN law.result.cohorts[1].window
                          /\ law.result.cohorts[1].window[k] = n
                          /\ 2 * size *
                               law.result.cohorts[1].retention_rate[k]
                               \in (2 * n * 10000 - size)..(2 * n * 10000 + size)


----------------------------------------------------------------------------
(* Analytics routes GET /stats/dau and GET /stats/top-events with their    *)
(* queries EventService.get_dau and get_top_events.  occurred_at is an     *)
(* instant, TicksPerDay instants to the calendar day; law holds the last   *)
(* request, its answer and the number of store queries it issued.          *)

TicksPerDay == 2
StatDays == 0..2
StatUsers == {"u1", "u2"}
StatTicks == {0, 1, 2, 4, 5}
Limits == {1, 2}

\* DATE(occurred_at)
DATE(t) == t \div TicksPerDay

\* datetime.fromisoformat(from_date).date(): midnight of the day
day_start(d) == d * TicksPerDay

\* an upper limit that stops at the midnight that begins the last day
day_end_same_day(d) == d * TicksPerDay

\* datetime.fromisoformat(to_date).date() + timedelta(days=1)
day_end(d) == (d + 1) * TicksPerDay

StatRow(u, t) ==
    [event_id |-> <<u, t>>, user_id |-> u, occurred_at |-> t,
     event_type |-> IF t % 2 = 0 THEN "click" ELSE "view"]

StatSlots ==
    <<StatRow("u1", 0), StatRow("u1", 1), StatRow("u1", 2), StatRow("u1", 4),
      StatRow("u1", 5), StatRow("u2", 0), StatRow("u2", 1), StatRow("u2", 2),
      StatRow("u2", 4), StatRow("u2", 5)>>

\* the events table holding the rows of StatSlots chosen by keep
StatRows(keep) == SelectSeq(StatSlots, LAMBDA r : r \in keep)

\* WHERE occurred_at >= :from_date AND occurred_at < :to_date
in_range(rows, from_dt, to_dt) ==
    {i \in DOMAIN rows :
        rows[i].occurred_at >= from_dt /\ rows[i].occurred_at < to_dt}

RECURSIVE ascending(_)
\* ORDER BY date: the dates of S from the earliest to the latest
ascending(S) ==
    IF S = {} THEN <<>>
    ELSE LET m == CHOOSE x \in S : \A y \in S : x <= y
         IN  <<m>> \o ascending(S \ {m})

\* get_dau(from_date, to_date): GROUP BY DATE(occurred_at), COUNT(DISTINCT
\* user_id), ORDER BY date
get_dau(rows, from_date, to_date) ==
    LET hit   == in_range(rows, day_start(from_date), day_end(to_date))
        dates == ascending({DATE(rows[i].occurred_at) : i \in hit})
    IN  [k \in DOMAIN dates |->
           [date |-> dates[k],
            active_users |->
              Cardinality({rows[i].user_id :
                             i \in {j \in hit :
                                      DATE(rows[j].occurred_at) = dates[k]}})]]

\* get_top_events(from_date, to_date, limit): the answers the query may give;
\* GROUP BY event_type, ORDER BY count DESC (types with equal counts in
\* either order), LIMIT :limit
get_top_events(rows, from_date, to_date, limit) ==
    LET hit    == in_range(rows, day_start(from_date), day_end(to_date))
        types  == {rows[i].event_type : i \in hit}
        count(t) == Cardinality({i \in hit : rows[i].event_type = t})
        n      == Min(limit, Cardinality(types))
        orders == {s \in [1..Cardinality(types) -> types] :
                     /\ \A a, b \in DOMAIN s : a # b => s[a] # s[b]
                     /\ \A a, b \in DOMAIN s :
                          a < b => count(s[a]) >= count(s[b])}
    IN  {[k \in 1..n |-> [event_type |-> s[k], count |-> count(s[k])]] :
           s \in orders}

\* a check that also refuses a one-day interval
from_not_before_to(from_date, to_date) == from_date >= to_date

\* if from_date > to_date: raise HTTPException(status_code=400)
from_after_to(from_date, to_date) == from_date > to_date

NoRequest == [op |-> "none", from |-> 0, to |-> 0, limit |-> 0]

StatsInit ==
    /\ seen = [id \in EventIds |-> 0]
    /\ rate = [c \in Clients |-> [count |-> 0, ttl |-> 0]]
    /\ stream = <<>>
    /\ \E keep \in SUBSET Range(StatSlots) : store = StatRows(keep)
    /\ events_failed_total =
         [reason \in {"ingestion_error", "decode_error", "processing_error"} |-> 0]
    /\ req = [r \in Reqs |-> IdleReq]
    /\ wk = [w \in Workers |-> IdleWorker]
    /\ law = [call |-> NoRequest, status |-> 0, result |-> <<>>, queries |-> 0]

\* GET /stats/dau?from=..&to=..
GetDailyActiveUsers(from_date, to_date) ==
    /\ IF from_after_to(from_date, to_date)
       THEN law' = [call |-> [op |-> "dau", from |-> from_date,
                              to |-> to_date, limit |-> 0],
                    status |-> 400, result |-> <<>>, queries |-> 0]
       ELSE law' = [call |-> [op |-> "dau", from |-> from_date,
                              to |-> to_date, limit |-> 0],
                    status |-> 200,
                    result |-> get_dau(store, from_date, to_date),
                    queries |-> 1]
    /\ UNCHANGED <<seen, rate, stream, store, events_failed_total, req, wk>>

\* GET /stats/top-events?from=..&to=..&limit=..
GetTopEvents(from_date, to_date, limit) ==
    /\ IF from_after_to(from_date, to_date)
       THEN law' = [call |-> [op |-> "top-events", from |-> from_date,
                              to |-> to_date, limit |-> limit],
                    status |-> 400, result |-> <<>>, queries |-> 0]
       ELSE \E answer \in get_top_events(store, from_date, to_date, limit) :
              law' = [call |-> [op |-> "top-events", from |-> from_date,
                                to |-> to_date, limit |-> limit],
                      status |-> 200, result |-> answer, queries |-> 1]
    /\ UNCHANGED <<seen, rate, stream, store, events_failed_total, req, wk>>

StatsNext ==
    \/ \E f \in StatDays, t \in StatDays : GetDailyActiveUsers(f, t)
    \/ \E f \in StatDays, t \in StatDays, n \in Limits : GetTopEvents(f, t, n)

StatsSpec == StatsInit /\ [][StatsNext]_vars


----------------------------------------------------------------------------
(* Properties of the analytics routes.                                     *)

\* the users with a stored event on calendar day d
UsersOn(d) ==
    {store[i].user_id :
        i \in {j \in DOMAIN store :
                 /\ store[j].occurred_at >= d * TicksPerDay
                 /\ store[j].occurred_at < (d + 1) * TicksPerDay}}

\* C31: the DAU query over [from, to] returns exactly one row for each
\* calendar date of the interval that has a stored event, with active_users
\* the number of distinct users with an event on that date, in ascending
\* date order, and no row for any other date: events outside
\* [from, to + 1 day) never contribute.
C31_DauPerDay ==
    (law.call.op = "dau" /\ law.status = 200) =>
        LET rows == law.result
        IN  /\ \A a, b \in DOMAIN rows : a < b => rows[a].date < rows[b].date
            /\ \A k \in DOMAIN rows :
                 /\ rows[k].date \in law.call.from..law.call.to
                 /\ UsersOn(rows[k].date) # {}
                 /\ rows[k].active_users = Cardinality(UsersOn(rows[k].date))
            /\ \A d \in law.call.from..law.call.to :
                 UsersOn(d) # {} => \E k \in DOMAIN rows : rows[k].date = d

\* a query over two days answered with two rows, the second for the last day
\* of the interval, where one user has two events on a day and is counted
\* once, while an event after the interval is stored
C31_Witness ==
    /\ law.call = [op |-> "dau", from |-> 0, to |-> 1, limit |-> 0]
    /\ law.status = 200
    /\ Len(law.result) = 2
    /\ law.result[1] = [date |-> 0, active_users |-> 1]
    /\ law.result[2] = [date |-> 1, active_users |-> 2]
    /\ \E i, j \in DOMAIN store :
         /\ i # j
         /\ store[i].user_id = store[j].user_id
         /\ store[i].occurred_at = 0
         /\ store[j].occurred_at = 1
    /\ UsersOn(2) # {}

\* C32: the DAU and top-events routes answer a request whose from is later
\* than to with 400 and issue no store query for it; a request with
\* from = to (or earlier) is accepted and queried.
C32_FromAfterToRejected ==
    law.call.op \in {"dau", "top-events"} =>
        /\ law.call.from > law.call.to =>
             (law.status = 400 /\ law.queries = 0 /\ law.result = <<>>)
        /\ law.call.from <= law.call.to =>
             (law.status = 200 /\ law.queries = 1)

\* a top-events request with from later than to was refused
C32_Witness ==
    /\ law.call.op = "top-events"
    /\ law.call.from > law.call.to
    /\ law.status = 400
    /\ store # <<>>

----------------------------------------------------------------------------
(* Properties of the ingest path under failure, concurrency and repeated   *)
(* event ids.                                                              *)

\* request r ends with a failed publish in this step
PublishFails(r) ==
    /\ req[r].pc = "publish"
    /\ req'[r].pc = "done"
    /\ req'[r].status = 500

\* request r ended with a 500 after it had identified new ids
FailedWithNewIds(r) ==
    /\ req[r].pc = "done"
    /\ req[r].status = 500
    /\ req[r].new_ids # <<>>

\* C33: a publish failure after the cache mark rolls nothing back.  The
\* failing step leaves every cache key as it is; a key disappears only when
\* its time-to-live runs out; and while the ids of a failed request are
\* still marked, a request that checks a batch classifies them as duplicates,
\* not as new, so it publishes none of them.
C33_FailedPublishKeepsMarks ==
    [][/\ \A r \in Reqs : PublishFails(r) => seen' = seen
       /\ \A id \in EventIds :
            (seen[id] > 0 /\ seen'[id] = 0) =>
                (seen[id] = 1 /\ seen' = expire_keys(seen))
       /\ \A q \in Reqs :
            (req[q].pc = "check" /\ req'[q].pc # "check"
               /\ req'[q].status # 500) =>
                \A r \in Reqs \ {q} :
                    FailedWithNewIds(r) =>
                        \A id \in Range(req[r].new_ids) :
                            seen[id] > 0 =>
                                /\ id \notin Range(req'[q].new_ids)
                                /\ \/ id \notin Range(EventIdsOf(req[q].batch))
                                   \/ id \in Range(req'[q].duplicate_ids)
       /\ \A q \in Reqs :
            (stream' # stream /\ req[q].pc = "publish"
               /\ req'[q].k # req[q].k) =>
                    /\ Len(stream') = Len(stream) + 1
                    /\ json_loads(stream'[Len(stream')].data).value.event_id
                         \in Range(req[q].new_ids)]_vars

\* the first request published "a" and failed on "b"; the resubmission was
\* answered with two duplicates and "b" is on no stream
C33_Witness ==
    \E r, q \in Reqs :
        /\ r # q
        /\ FailedWithNewIds(r)
        /\ req[r].k = 1
        /\ Len(req[r].new_events) = 2
        /\ req[q].pc = "done"
        /\ req[q].status = 202
        /\ req[q].batch = req[r].batch
        /\ req[q].accepted = 0
        /\ req[q].duplicates = 2
        /\ \A i \in DOMAIN stream :
             json_loads(stream[i].data).value.event_id # "b"


\* the event_id carried by message i of the stream
IdOf(i) == json_loads(stream[i].data).value.event_id

\* C34: while no cache key expires, two ingest requests that both contain
\* the same previously unseen event id never both publish it and never both
\* count it as accepted: no event id is on the stream from two requests.
C34_ConcurrentPublishedOnce ==
    /\ \A i, j \in DOMAIN stream :
         stream[i].by # stream[j].by => IdOf(i) # IdOf(j)
    /\ \A r, q \in Reqs :
         (r # q /\ req[r].status = 202 /\ req[q].status = 202) =>
             \A i \in DOMAIN req[r].new_events, j \in DOMAIN req[q].new_events :
                 req[r].new_events[i].event_id # req[q].new_events[j].event_id


\* C35: a single ingest request publishes each event id at most once and
\* counts it at most once in accepted, also when its batch repeats an id.
C35_RequestPublishesIdOnce ==
    \A r \in Reqs :
        /\ \A i, j \in DOMAIN stream :
             (i # j /\ stream[i].by = r /\ stream[j].by = r) =>
                 IdOf(i) # IdOf(j)
        /\ req[r].accepted <=
             Cardinality(Range(EventIdsOf(req[r].batch)))


----------------------------------------------------------------------------
(* Properties of the worker's fetch loop.                                  *)

\* C36: every delivery the worker fetches ends in a disposition issued by
\* process_event: a message that is delivered and awaits its disposition is
\* one the worker is processing or still has ahead of it in its batch, so
\* no fetched message is dropped when the shutdown flag is set.
C36_EveryDeliveryDisposed ==
    \A i \in DOMAIN stream : stream[i].state = "inflight" => Held(i)


\* C37: a message whose payload is JSON but not a valid event record is
\* poison: it is never requeued with a delay and never delivered a second
\* time.
C37_InvalidRecordTerminated ==
    \A i \in DOMAIN stream :
        (~Malformed(i) /\ ~ValidEvent(json_loads(stream[i].data).value)) =>
            /\ stream[i].delay = 0
            /\ stream[i].deliveries <= 1
            /\ stream[i].state \in {"pending", "inflight", "termed"}

\* C38: the fetch loop ends only because the shutdown flag is set.  The
\* worker leaves the loop only from the loop head with the flag set; an
\* empty fetch and an exception of the loop body put it back at the loop
\* head, where it polls again while the flag is unset.
C38_LoopEndsOnlyOnFlag ==
    /\ [][\A w \in {"w1"} :
            /\ wk'[w].pc = "exit" =>
                 (wk[w].pc \in {"loop", "exit"} /\ wk'[w].shutdown_flag)
            /\ (wk[w].pc \in {"timeout", "sleep"} /\ wk'[w].pc # wk[w].pc) =>
                 wk'[w].pc = "loop"]_vars
    /\ \A w \in {"w1"} : wk[w].pc \in {"timeout", "sleep"} ~> wk[w].pc = "loop"
    /\ [](\A w \in {"w1"} : ~wk[w].shutdown_flag => wk[w].pc # "exit")

\* an exception left the loop body while a delivery awaited its
\* disposition, and the worker, its flag unset, is in the loop's handler
C38_Witness ==
    /\ wk["w1"].pc = "sleep"
    /\ ~wk["w1"].shutdown_flag
    /\ \E i \in DOMAIN stream : stream[i].state = "inflight"

====
